---- MODULE Spec2Model ----
(***************************************************************************)
(* LabfolderPy: the TableElement of labfolder/classes/data_elements.py.    *)
(*                                                                         *)
(* A table element holds self.table, a dict from sheet name to a sheet.    *)
(* A sheet is either in wire form (the record of the Labfolder API, whose  *)
(* cell grid is data.dataTable) or in tabular form (a pandas DataFrame);   *)
(* to_dict and table_to_dict turn a DataFrame into a dict of its columns.  *)
(* table_to_pandas turns a cell grid into a DataFrame, and                 *)
(* convert_pd_to_export turns the DataFrames of self.table into a wire     *)
(* document.                                                               *)
(*                                                                         *)
(* Scalars are records tagged by k: Python's None, the float nan, +inf and *)
(* -inf, a text Str(i, j) (tagged by the place it was first put, so that   *)
(* a misplaced cell shows), an integer IntVal(n) and a JSON object key Key(n) *)
(* (the string of n).  A dict is a sequence of entries in insertion order. *)
(* A DataFrame is its index labels, its column labels and its rows.        *)
(***************************************************************************)
EXTENDS Integers, Sequences, FiniteSets, TLC

VARIABLES
    table,      \* self.table: sequence of [name, sheet] entries (dict order)
    header,     \* the header argument the caller passes to every call
    pc,         \* position of the caller
    converted,  \* outcome of table_to_pd(header, in_place=False)
    exported,   \* outcome of convert_pd_to_export(header)
    reimported, \* outcome of table_to_pandas on the exported grid
    element_id, \* self.element_id
    entry_id,   \* self.entry_id
    request,    \* the HTTP request sent last, NoRequest before the first;
                \* after get_entry the GET of the entry, which it sends first
    sent,       \* how many requests the last call sent
    outcome,    \* how the last call ended: ReturnNone or Raise(exception)
    obj,        \* the object the calls are made on: its class and its fields
    before,     \* the fields the object had when the last call began
    response,   \* the answer of the server to the last request
    session,    \* user_info: None or a LabFolderUserInfo
    default_table,  \* the dict of the parameter default table={} (line 636)
    shares_default  \* whether self.table is that dict (line 669)

elemvars == <<element_id, entry_id, request, sent, outcome,
              obj, before, response, session, default_table, shares_default>>
vars == <<table, header, pc, converted, exported, reimported,
          element_id, entry_id, request, sent, outcome,
          obj, before, response, session, default_table, shares_default>>

\* ---------------------------------------------------------------- bounds

\* Largest number of cells (rows times columns) of a generated sheet.
MaxCells == 6
\* Largest number of columns of a generated sheet.
MaxCols == 3
\* Largest number of cells of a generated DataFrame.
MaxFrameCells == 4
\* Rows and columns of the square grids of the pruning runs.
GridSide == 3

\* --------------------------------------------------------------- scalars

None == [k |-> "None"]
NaN == [k |-> "nan"]
Inf == [k |-> "inf"]
NegInf == [k |-> "-inf"]
Str(i, j) == [k |-> "str", r |-> i, c |-> j]
IntVal(n) == [k |-> "int", n |-> n]
Key(n) == [k |-> "key", n |-> n]
\* A Python string and a dict held as the value of a DataFrame cell.
Text(s) == [k |-> "text", s |-> s]
DictVal(d) == [k |-> "dict", d |-> d]

\* pandas.isna on a scalar: None and nan are missing, the infinities are not.
IsNA(v) == v.k \in {"None", "nan"}

Range(s) == {s[i] : i \in DOMAIN s}

\* ------------------------------------------------------------ wire cells

\* A cell record {"value": v} or {} of a dataTable row.
Cell(v) == [type |-> "dict", keys |-> {"value"}, value |-> v]
EmptyCell == [type |-> "dict", keys |-> {}, value |-> [k |-> "unset"]]

\* CellValue with the default of .get("value", "") instead of None.
CellValueDefaultText(cell) ==
    IF "value" \in cell.keys THEN cell.value ELSE [k |-> "str", r |-> 0, c |-> 0]

\* table[row][col].get("value", None)
CellValue(cell) ==
    IF "value" \in cell.keys THEN cell.value ELSE None

\* The dict comprehension of one row: {col: cell.get("value", None)}.
RowDict(row) ==
    [i \in DOMAIN row.cells |->
        [key |-> row.cells[i].key, value |-> CellValue(row.cells[i].cell)]]

\* A cell that is no dict has no .get: the comprehension raises
\* AttributeError, which `except KeyError` does not catch.
RowRaises(row) == \E i \in DOMAIN row.cells : row.cells[i].cell.type # "dict"

\* ------------------------------------------------------------ DataFrames

\* Column labels of pd.DataFrame(list of dicts): the keys in order of first
\* appearance.
RECURSIVE AppendNew(_, _)
AppendNew(cols, d) ==
    IF d = <<>> THEN cols
    ELSE AppendNew(IF Head(d).key \in Range(cols) THEN cols
                   ELSE Append(cols, Head(d).key), Tail(d))

RECURSIVE UnionKeys(_, _)
UnionKeys(cols, data) ==
    IF data = <<>> THEN cols
    ELSE UnionKeys(AppendNew(cols, Head(data)), Tail(data))

\* d[key] of a dict held as a sequence of entries; nan when key is absent
\* (pandas fills the holes of a ragged list of dicts with nan).
Lookup(d, key) ==
    IF \E i \in DOMAIN d : d[i].key = key
    THEN d[CHOOSE i \in DOMAIN d : d[i].key = key].value
    ELSE NaN

\* pd.DataFrame(data) for a list of dicts: RangeIndex, union of the keys.
DataFrame(data) ==
    LET cols == UnionKeys(<<>>, data) IN
    [kind |-> "df",
     index |-> [i \in DOMAIN data |-> i - 1],
     columns |-> cols,
     rows |-> [i \in DOMAIN data |->
                 [j \in DOMAIN cols |-> Lookup(data[i], cols[j])]]]

\* df.fillna(np.nan): every missing value becomes nan.
FillNa(df) ==
    [df EXCEPT !.rows =
        [i \in DOMAIN df.rows |->
            [j \in DOMAIN df.rows[i] |->
                IF IsNA(df.rows[i][j]) THEN NaN ELSE df.rows[i][j]]]]

\* The positions of s, in order, that satisfy keep.
RECURSIVE KeptFrom(_, _, _)
KeptFrom(i, n, keep) ==
    IF i > n THEN <<>>
    ELSE IF i \in keep THEN <<i>> \o KeptFrom(i + 1, n, keep)
    ELSE KeptFrom(i + 1, n, keep)

Pick(s, keep) ==
    LET at == KeptFrom(1, Len(s), keep) IN [p \in DOMAIN at |-> s[at[p]]]

\* df.dropna(axis=0, how="all"): a row goes when none of its values is
\* present (a row of a frame without columns has none).
DropNaRows(df) ==
    LET keep == {i \in DOMAIN df.rows :
                    \E j \in DOMAIN df.columns : ~IsNA(df.rows[i][j])} IN
    [df EXCEPT !.index = Pick(df.index, keep), !.rows = Pick(df.rows, keep)]

\* DropNaCols with how="any": a column goes when some row lacks a value in it.
DropNaColsAny(df) ==
    LET keep == {j \in DOMAIN df.columns :
                    \A i \in DOMAIN df.rows : ~IsNA(df.rows[i][j])} IN
    [df EXCEPT !.columns = Pick(df.columns, keep),
               !.rows = [i \in DOMAIN df.rows |-> Pick(df.rows[i], keep)]]

\* DropNaCols left out (line 885): every column stays.
DropNaColsNot(df) == df

\* df.dropna(axis=1, how="all"): a column goes when no row holds a value in it.
DropNaCols(df) ==
    LET keep == {j \in DOMAIN df.columns :
                    \E i \in DOMAIN df.rows : ~IsNA(df.rows[i][j])} IN
    [df EXCEPT !.columns = Pick(df.columns, keep),
               !.rows = [i \in DOMAIN df.rows |-> Pick(df.rows[i], keep)]]

\* df.sort_index(): rows in ascending label order (stable).
RECURSIVE SortedPositions(_, _)
SortedPositions(index, left) ==
    IF left = {} THEN <<>>
    ELSE LET m == CHOOSE i \in left :
                    \A o \in left : index[i] < index[o]
                                    \/ (index[i] = index[o] /\ i <= o) IN
         <<m>> \o SortedPositions(index, left \ {m})

SortedRows(df, at) ==
    [df EXCEPT !.index = [p \in DOMAIN at |-> df.index[at[p]]],
               !.rows = [p \in DOMAIN at |-> df.rows[at[p]]]]

\* A frame of at most one row is sorted whatever its label is.
SortIndex(df) ==
    IF Len(df.index) <= 1 THEN df
    ELSE SortedRows(df, SortedPositions(df.index, DOMAIN df.index))

\* df.reset_index(drop=True): labels 0 .. n-1.
ResetIndex(df) == [df EXCEPT !.index = [i \in DOMAIN df.index |-> i - 1]]

\* df.drop(0): the rows labelled 0 go.
DropLabel(df, label) ==
    LET keep == {i \in DOMAIN df.index : df.index[i] # label} IN
    [df EXCEPT !.index = Pick(df.index, keep), !.rows = Pick(df.rows, keep)]

\* ------------------------------------------------------- table_to_pandas

Ok(v) == [st |-> "ok", val |-> v]
Raise(e) == [st |-> "raise", exc |-> e]
ReturnNone == [st |-> "None"]
NotRun == [st |-> "notrun"]
NoRequest == [method |-> "none"]

\* Lines 871-885: the list of row dicts, the frame, the pruning.
PrunedFrame(grid) ==
    DropNaCols(DropNaRows(FillNa(DataFrame([i \in DOMAIN grid |-> RowDict(grid[i])]))))

\* TakeHeader without line 887: the row labelled 0 goes, the names stay.
TakeHeaderKeepNames(df) ==
    IF df.rows = <<>> THEN Raise("IndexError")
    ELSE IF 0 \notin Range(df.index) THEN Raise("KeyError")
    ELSE Ok(DropLabel(df, 0))

\* Lines 886-888: df.columns = df.iloc[0].tolist(); df.drop(0).
\* iloc[0] is the first row by position and raises IndexError on a frame
\* without rows; drop(0) removes by label and raises KeyError when no row
\* is labelled 0.
TakeHeader(df) ==
    IF df.rows = <<>> THEN Raise("IndexError")
    ELSE IF 0 \notin Range(df.index) THEN Raise("KeyError")
    ELSE Ok(DropLabel([df EXCEPT !.columns = df.rows[1]], 0))

\* Lines 886-888, under `if header`.
HeaderStep(df, hdr) == IF hdr THEN TakeHeader(df) ELSE Ok(df)

\* Lines 889-891: sort_index, reset_index, return; an exception raised
\* before them leaves the function.
SortAndReturn(h) ==
    IF h.st = "raise" THEN h ELSE Ok(ResetIndex(SortIndex(h.val)))

\* table_to_pandas(table, header), lines 851-891.
TableToPandas(grid, hdr) ==
    IF \E i \in DOMAIN grid : RowRaises(grid[i]) THEN Raise("AttributeError")
    ELSE SortAndReturn(HeaderStep(PrunedFrame(grid), hdr))

\* ------------------------------------------------------------ self.table

\* A sheet of self.table in wire form, as load_table stores it (line 718).
WireSheet(nm, grid, nrows, ncols) ==
    [kind |-> "wire", name |-> nm, rowCount |-> nrows, columnCount |-> ncols,
     dataTable |-> grid]

\* isinstance(element, pd.DataFrame)
IsDataFrame(sheet) == sheet.kind = "df"

\* The row labels of a frame, and the inner keys of a dict of columns, are
\* integers unless the field `labels` says they are strings.
TextLabels(x) == "labels" \in DOMAIN x

\* self.table[sheet]["data"]["dataTable"], line 900.  A sheet in wire form
\* holds the grid there.  A dict of columns (the to_dict() of a DataFrame)
\* is subscripted by column label and then by row label: KeyError unless it
\* has a column "data" with a row "dataTable".
DataColumns(sheet) ==
    {j \in DOMAIN sheet.columns : sheet.columns[j].key = Text("data")}

DataTableCells(col) ==
    {i \in DOMAIN col.cells : col.cells[i].key = "dataTable"}

DataTableOf(col) ==
    IF DataTableCells(col) = {} THEN Raise("KeyError")
    ELSE Ok(col.cells[CHOOSE i \in DataTableCells(col) : TRUE].value.d)

GridOfSheet(sheet) ==
    IF sheet.kind = "wire" THEN Ok(sheet.dataTable)
    ELSE IF DataColumns(sheet) = {} \/ ~TextLabels(sheet) THEN Raise("KeyError")
    ELSE DataTableOf(sheet.columns[CHOOSE j \in DataColumns(sheet) : TRUE])

\* One turn of the comprehension of lines 898-903.
ConvertSheet(grid, hdr) ==
    IF grid.st = "raise" THEN grid ELSE TableToPandas(grid.val, hdr)

\* table_to_pd's dict comprehension (lines 898-903): the sheets in dict
\* order, the first exception ending it.
RECURSIVE ConvertSheets(_, _, _)
ConvertNext(tbl, hdr, done, r) ==
    IF r.st = "raise" THEN r
    ELSE ConvertSheets(Tail(tbl), hdr,
             Append(done, [name |-> Head(tbl).name, sheet |-> r.val]))

ConvertSheets(tbl, hdr, done) ==
    IF tbl = <<>> THEN Ok(done)
    ELSE ConvertNext(tbl, hdr, done,
                     ConvertSheet(GridOfSheet(Head(tbl).sheet), hdr))

\* table_to_pd(header, in_place), lines 846-905: what it returns (or
\* raises).  The converted dict is bound to the local name `table` only, so
\* self.table is the same after the call whatever in_place is.
ReturnConverted(r, in_place) ==
    IF r.st = "raise" THEN r
    ELSE IF in_place THEN ReturnNone ELSE r

TableToPd(tbl, hdr, in_place) ==
    IF \E i \in DOMAIN tbl : IsDataFrame(tbl[i].sheet) THEN ReturnNone
    ELSE ReturnConverted(ConvertSheets(tbl, hdr, <<>>), in_place)

\* -------------------------------------------------- convert_pd_to_export

\* ShiftIndex without the shift (line 1002 left out).
ShiftIndexNot(df) == df

\* df.index = df.index + 1
ShiftIndex(df) == [df EXCEPT !.index = [i \in DOMAIN df.index |-> df.index[i] + 1]]

\* df.loc[label] = values: the rows labelled `label` are overwritten, or a
\* new row is appended when there is none.
SetRow(df, label, values) ==
    IF label \in Range(df.index)
    THEN [df EXCEPT !.rows = [i \in DOMAIN df.rows |->
                                 IF df.index[i] = label THEN values
                                 ELSE df.rows[i]]]
    ELSE [df EXCEPT !.index = Append(df.index, label),
                    !.rows = Append(df.rows, values)]

\* Sanitize without the entry for -np.inf.
SanitizeNoNegInf(v) == IF v.k \in {"nan", "inf"} THEN None ELSE v

\* df.replace({np.nan: None, np.inf: None, -np.inf: None})
Sanitize(v) == IF v.k \in {"nan", "inf", "-inf"} THEN None ELSE v

Replace(df) ==
    [df EXCEPT !.rows = [i \in DOMAIN df.rows |->
                            [j \in DOMAIN df.rows[i] |-> Sanitize(df.rows[i][j])]]]

\* Augmented without sort_index (line 1004 left out): the header row,
\* appended by .loc[0], stays last.
AugmentedUnsorted(df, hdr) ==
    ResetIndex(IF hdr THEN SetRow(ShiftIndex(df), 0, df.columns) ELSE df)

\* Lines 1001-1005: the header row and the fresh index.
Augmented(df, hdr) ==
    ResetIndex(SortIndex(IF hdr THEN SetRow(ShiftIndex(df), 0, df.columns) ELSE df))

\* RangeColumns left out (line 1008): the column names stay the keys.
RangeColumnsNot(df) == df

\* df.columns = range(df.shape[1])
RangeColumns(df) == [df EXCEPT !.columns = [j \in DOMAIN df.columns |-> IntVal(j - 1)]]

\* df.to_dict(orient="index") with every value wrapped as {"value": v}
\* (lines 1012-1015): a dict keyed by row label, then by column label.
ToGrid(df) ==
    [i \in DOMAIN df.rows |->
        [key |-> IntVal(df.index[i]),
         cells |-> [j \in DOMAIN df.columns |->
                        [key |-> df.columns[j], cell |-> Cell(df.rows[i][j])]]]]

\* Lines 1006-1025: the counts, the range columns, the nulls, the grid.
SheetRecord(nm, aug) ==
    [name |-> nm,
     rowCount |-> Len(aug.rows),
     columnCount |-> Len(aug.columns),
     dataTable |-> ToGrid(Replace(RangeColumns(aug)))]

\* One turn of the loop of lines 1000-1025 on a DataFrame.
ExportFrame(nm, df, hdr) == SheetRecord(nm, Augmented(df, hdr))

\* One turn of the loop on a sheet of tmp_table.  A sheet that is a dict
\* has neither .index nor .sort_index: AttributeError.  index + 1 (line
\* 1002) on row labels that are strings raises TypeError.  Setting .loc[0]
\* on a frame without columns raises ValueError.
ExportSheet(nm, sheet, hdr) ==
    IF ~IsDataFrame(sheet) THEN Raise("AttributeError")
    ELSE IF hdr /\ TextLabels(sheet) THEN Raise("TypeError")
    ELSE IF hdr /\ sheet.columns = <<>> THEN Raise("ValueError")
    ELSE Ok(ExportFrame(nm, sheet, hdr))

RECURSIVE ExportSheets(_, _, _)
ExportNext(tbl, hdr, done, r) ==
    IF r.st = "raise" THEN r
    ELSE ExportSheets(Tail(tbl), hdr,
             Append(done, [name |-> Head(tbl).name, sheet |-> r.val]))

ExportSheets(tbl, hdr, done) ==
    IF tbl = <<>> THEN Ok([sheets |-> done])
    ELSE ExportNext(tbl, hdr, done,
                    ExportSheet(Head(tbl).name, Head(tbl).sheet, hdr))

\* The exceptions the try of lines 993-997 catches.
Caught == {"TypeError", "ValueError", "KeyError", "AttributeError"}

\* convert_pd_to_export(header), lines 990-1026: Ok(document), ReturnNone
\* or the exception that leaves it.
\* Lines 990-997: self.table_to_pd() under try when some sheet is no
\* DataFrame.  NotRun when the call is skipped or returns.
TryTableToPd(tbl) ==
    IF \A i \in DOMAIN tbl : IsDataFrame(tbl[i].sheet) THEN NotRun
    ELSE TableToPd(tbl, TRUE, TRUE)

AfterTry(tbl, hdr, c) ==
    IF c.st = "raise"
    THEN (IF c.exc \in Caught THEN ReturnNone ELSE c)
    ELSE ExportSheets(tbl, hdr, <<>>)

ConvertPdToExport(tbl, hdr) == AfterTry(tbl, hdr, TryTableToPd(tbl))

\* ------------------------------------------------------- generated inputs

\* What a generated wire cell may be: the column key absent from the row,
\* {} (no "value" key), {"value": None}, {"value": <text>}.
WireChoices == {"absent", "empty", "null", "text"}

\* A column entry that is no cell record: a string where the dict should be.
MalformedCell == [type |-> "str", keys |-> {}, value |-> [k |-> "unset"]]

WireCellOf(choice, i, j) ==
    CASE choice = "empty" -> EmptyCell
      [] choice = "null" -> Cell(None)
      [] choice = "malformed" -> MalformedCell
      [] OTHER -> Cell(Str(i, j))

\* The cell grid of r rows and (at most) c columns that f describes, as the
\* JSON of the API gives it: row keys "0", "1", ..., column keys likewise,
\* both in ascending order.
GridOf(r, c, f) ==
    [i \in 1..r |->
        [key |-> Key(i - 1),
         cells |-> LET present == {j \in 1..c : f[<<i, j>>] # "absent"}
                       at == KeptFrom(1, c, present) IN
                   [p \in DOMAIN at |->
                       [key |-> Key(at[p] - 1),
                        cell |-> WireCellOf(f[<<i, at[p]>>], i, at[p])]]]]

\* The ways to fill r rows of c places from a set of choices.
Fillings(r, c, choices) == [(1..r) \X (1..c) -> choices]

Shapes(cells) ==
    {sh \in (0..cells) \X (1..MaxCols) : sh[1] * sh[2] <= cells}

\* What a generated tabular cell may be, and what a column name may be.
FrameChoices == {"nan", "inf", "-inf", "text"}
NameChoices == {"nan", "inf", "text"}

ScalarOf(choice, i, j) ==
    CASE choice = "nan" -> NaN
      [] choice = "inf" -> Inf
      [] choice = "-inf" -> NegInf
      [] OTHER -> Str(i, j)

\* The DataFrame of r rows and c columns with the default RangeIndex: column
\* j is named by n[j], cell (i, j) is g[i, j].
FrameOf(r, c, n, g) ==
    [kind |-> "df",
     index |-> [i \in 1..r |-> i - 1],
     columns |-> [j \in 1..c |-> ScalarOf(n[j], 0, j)],
     rows |-> [i \in 1..r |-> [j \in 1..c |-> ScalarOf(g[<<i, j>>], i, j)]]]

\* The sheet name every one-sheet table of the conversion runs uses.
Sheet1 == "Sheet1"

OneSheet(sheet) == <<[name |-> Sheet1, sheet |-> sheet]>>

\* The sheet record the API sends for a grid: its declared counts are those
\* of the grid.
Fetched(nm, grid) ==
    WireSheet(nm, grid, Len(grid),
              Cardinality(UNION {{grid[i].cells[p].key :
                                     p \in DOMAIN grid[i].cells} :
                                 i \in DOMAIN grid}))

\* ------------------------------------------------ sessions and answers

\* user_info = None.
NoUser == [kind |-> "None"]

\* LabFolderUserInfo() as labfolder_login builds it after a failed login
\* (labfolder_access.py lines 36-45): no token, api_address "/api/v2/", and
\* none of the attributes _get_user_info sets (user_id, first_name, ...).
FailedUser ==
    [kind |-> "LabFolderUserInfo", auth_token |-> "None",
     api_address |-> "/api/v2/", attrs |-> {}]

\* LabFolderUserInfo(auth_token, labfolder_url) after _get_user_info.
LoggedIn ==
    [kind |-> "LabFolderUserInfo", auth_token |-> "Bearer token",
     api_address |-> "https://lab/api/v2/",
     attrs |-> {"first_name", "last_name", "initials", "email", "user_id",
                "location"}]

UserId == "u1"

\* A variant that attaches no credential.
HeadersNone(s) == "None"

\* headers=user_info.auth_token, as every request of an element, an entry
\* and the logout passes it (e.g. line 71; entries.py line 239).
Headers(s) == s.auth_token

WithHeaders(req, s) == [headers |-> Headers(s)] @@ req

\* The answer of the server: its status code and the fields of its JSON body.
NoResponse == [status_code |-> 0, body |-> [none |-> "none"]]

\* The id the server gives a created record.
NewId == "new"

\* The answer to a POST: 201 with the id of the record, or an error body.
PostAnswer(status) ==
    [status_code |-> status,
     body |-> IF status = 201 THEN [id |-> NewId] ELSE [message |-> "error"]]

\* The answer to a PUT.
PutAnswer(status) ==
    [status_code |-> status,
     body |-> IF status = 200 THEN [id |-> "same"] ELSE [message |-> "error"]]

\* A TableElement's fields next to table, element_id and entry_id
\* (lines 666-672).
TableObject(owner) ==
    [cls |-> "TableElement",
     f |-> [type |-> "TABLE", creation_date |-> "", owner_id |-> owner,
            title |-> ""]]

\* The fields load_table sets from the record (lines 715-717).
TableLoaded(o) ==
    [o EXCEPT !.f = [type |-> "TABLE", creation_date |-> "srv:creation_date",
                     owner_id |-> "srv:owner_id", title |-> "srv:title"]]

NoSnapshot == [op |-> "none"]

\* What the object is when a call begins: the call, its identifier
\* argument, the body fields it reads, and every field of the object.
Snapshot(op, arg, expects) ==
    [op |-> op, arg |-> arg, expects |-> expects, obj |-> obj,
     element_id |-> element_id, entry_id |-> entry_id, table |-> table]

\* The fields load_table reads from the record (lines 714-718).
TableKeys == {"entry_id", "creation_date", "owner_id", "title", "content"}

\* In the conversion runs the element sends nothing and keeps its fields.
ElemIdle ==
    /\ element_id = ""
    /\ entry_id = ""
    /\ request = NoRequest
    /\ sent = 0
    /\ outcome = NotRun
    /\ obj = TableObject(UserId)
    /\ before = NoSnapshot
    /\ response = NoResponse
    /\ session = LoggedIn
    /\ default_table = <<>>
    /\ shares_default = FALSE

\* ------------------------------------------------- wire -> tabular runs

\* An element whose table was fetched (one sheet, wire form); the caller
\* asks for table_to_pd(header, in_place=False).
InitImport ==
    /\ \E sh \in Shapes(MaxCells) :
          \E f \in Fillings(sh[1], sh[2], WireChoices) :
             table = OneSheet(Fetched(Sheet1, GridOf(sh[1], sh[2], f)))
    /\ header \in BOOLEAN
    /\ pc = "start"
    /\ converted = NotRun
    /\ exported = NotRun
    /\ reimported = NotRun
    /\ ElemIdle

CallTableToPd ==
    /\ pc = "start"
    /\ converted' = TableToPd(table, header, FALSE)
    /\ pc' = "converted"
    /\ UNCHANGED <<table, header, exported, reimported>>
    /\ UNCHANGED elemvars

NextImport == CallTableToPd

SpecImport == InitImport /\ [][NextImport]_vars

\* --------------------------------------- reading a grid, cell by cell

\* The grid and the frame of the one-sheet runs.
TheGrid == table[1].sheet.dataTable
TheFrame == converted.val[1].sheet
Returned(o) == o.st = "ok"

\* What the sheet holds at row position i under column key ck: the value of
\* the cell, null when the row has no such key, the cell has no "value"
\* field or the value is None.  All nulls read as nan.
Held(grid, i, ck) ==
    LET at == {p \in DOMAIN grid[i].cells : grid[i].cells[p].key = ck} IN
    IF at = {} THEN NaN
    ELSE LET cell == grid[i].cells[CHOOSE p \in at : TRUE].cell IN
         IF "value" \notin cell.keys \/ cell.value = None THEN NaN
         ELSE cell.value

AllKeys(grid) ==
    UNION {{grid[i].cells[p].key : p \in DOMAIN grid[i].cells} : i \in DOMAIN grid}

\* Rows and column keys that hold at least one value.
LiveRows(grid) ==
    {i \in DOMAIN grid : \E ck \in AllKeys(grid) : Held(grid, i, ck) # NaN}
LiveKeys(grid) ==
    {ck \in AllKeys(grid) : \E i \in DOMAIN grid : Held(grid, i, ck) # NaN}

\* The place a column key is first seen at: <<row position, place in row>>.
FirstSeen(grid, ck) ==
    LET i == CHOOSE r \in DOMAIN grid :
                 /\ \E p \in DOMAIN grid[r].cells : grid[r].cells[p].key = ck
                 /\ \A q \in 1..(r - 1) :
                       \A p \in DOMAIN grid[q].cells : grid[q].cells[p].key # ck
    IN <<i, CHOOSE p \in DOMAIN grid[i].cells : grid[i].cells[p].key = ck>>

SeenBefore(grid, a, b) ==
    LET fa == FirstSeen(grid, a)
        fb == FirstSeen(grid, b) IN
    fa[1] < fb[1] \/ (fa[1] = fb[1] /\ fa[2] < fb[2])

\* The live column keys in the order they are first seen, and the live row
\* positions in ascending order.
LiveKeySeq(grid) ==
    LET live == LiveKeys(grid) IN
    [j \in 1..Cardinality(live) |->
        CHOOSE ck \in live :
            Cardinality({o \in live : SeenBefore(grid, o, ck)}) = j - 1]
LiveRowSeq(grid) == KeptFrom(1, Len(grid), LiveRows(grid))

\* The values of the live rows under the live keys: the pruned rectangle.
LiveRectangle(grid) ==
    LET rs == LiveRowSeq(grid)
        ks == LiveKeySeq(grid) IN
    [p \in DOMAIN rs |-> [j \in DOMAIN ks |-> Held(grid, rs[p], ks[j])]]

RangeIndex(n) == [i \in 1..n |-> i - 1]

\* ---------------------------------------------- wire -> tabular: claims

\* C2: with header=true, for every sheet that has at least one non-null
\* row, the conversion returns; the first row that survives the pruning
\* (whatever its row key) supplies the column names, that row is removed,
\* and the remaining surviving rows follow in their order, indexed 0, 1, ...
C2_HeaderFromFirstSurvivingRow ==
    (pc = "converted" /\ header /\ LiveRows(TheGrid) # {}) =>
        /\ Returned(converted)
        /\ LET rect == LiveRectangle(TheGrid) IN
           /\ TheFrame.columns = Head(rect)
           /\ TheFrame.rows = Tail(rect)
           /\ TheFrame.index = RangeIndex(Len(rect) - 1)

\* C3 as stated: the output rows are the pruned rectangle of the input
\* (an entry per surviving column key, every non-null input cell at its
\* row and column), no output row is null in all columns and no output
\* column is null in all rows, for either header setting.
C3_OutputIsPrunedRectangle ==
    (pc = "converted" /\ Returned(converted)) =>
        /\ TheFrame.rows = LiveRectangle(TheGrid)
        /\ \A i \in DOMAIN TheFrame.rows :
              \E j \in DOMAIN TheFrame.columns : ~IsNA(TheFrame.rows[i][j])
        /\ \A j \in DOMAIN TheFrame.columns :
              \E i \in DOMAIN TheFrame.rows : ~IsNA(TheFrame.rows[i][j])

\* The rows of a returned frame, with the column names put back as the
\* first row when the header was taken from it.
WithNames(df, hdr) == IF hdr THEN <<df.columns>> \o df.rows ELSE df.rows

\* C3 amended: whenever the conversion returns, the frame before the header
\* is taken (with header=false the output itself, with header=true the
\* column names followed by the data rows) is the pruned rectangle of the
\* input: one entry per surviving column key in every row, nan where the
\* row lacked it, every non-null input cell at its row and column, no row
\* null in all columns, no column null in all rows; the data rows are
\* indexed 0, 1, ...
C3_PrunedRectangleBeforeHeader ==
    (pc = "converted" /\ Returned(converted)) =>
        LET full == WithNames(TheFrame, header) IN
        /\ full = LiveRectangle(TheGrid)
        /\ \A i \in DOMAIN full :
              /\ Len(full[i]) = Cardinality(LiveKeys(TheGrid))
              /\ \E j \in DOMAIN full[i] : ~IsNA(full[i][j])
        /\ \A j \in DOMAIN TheFrame.columns :
              \E i \in DOMAIN full : ~IsNA(full[i][j])
        /\ TheFrame.index = RangeIndex(Len(TheFrame.rows))

\* C3 witness: a header=false conversion of three rows under two column
\* keys that dropped a null row and a null column.
C3_Witness ==
    /\ pc = "converted" /\ ~header /\ Returned(converted)
    /\ Len(TheFrame.rows) = 2 /\ Len(TheGrid) = 3
    /\ Len(TheFrame.columns) = 1 /\ Cardinality(AllKeys(TheGrid)) = 2

\* The grid with every cell that lacks a "value" key given "value": None.
ExplicitNulls(grid) ==
    [i \in DOMAIN grid |->
        [key |-> grid[i].key,
         cells |-> [p \in DOMAIN grid[i].cells |->
                       [key |-> grid[i].cells[p].key,
                        cell |-> IF "value" \in grid[i].cells[p].cell.keys
                                 THEN grid[i].cells[p].cell
                                 ELSE Cell(None)]]]]

\* C4: a cell without a "value" key and a cell with "value": None are
\* indistinguishable: the outcome of the conversion equals the outcome for
\* the sheet in which every cell without the key carries "value": None
\* (so any two sheets that differ only in the form of their nulls convert
\* alike), for either header setting.
C4_NullFormsIndistinguishable ==
    pc = "converted" =>
        converted = TableToPd(
            OneSheet(Fetched(Sheet1, ExplicitNulls(TheGrid))), header, FALSE)

\* C4 witness: a returned conversion of a sheet that holds a cell without
\* the key next to values, so that the twin sheet differs.
C4_Witness ==
    /\ pc = "converted" /\ Returned(converted)
    /\ ExplicitNulls(TheGrid) # TheGrid
    /\ Len(TheFrame.rows) >= 1 /\ Len(TheFrame.columns) >= 2

\* C5 as stated: with header=false the columns carry the default positional
\* names 0, 1, 2, ...; with header=true the values of the first surviving row.
C5_PositionalNames ==
    (pc = "converted" /\ Returned(converted)) =>
        IF header THEN TheFrame.columns = Head(LiveRectangle(TheGrid))
        ELSE TheFrame.columns =
                 [j \in DOMAIN TheFrame.columns |-> IntVal(j - 1)]

\* C5 amended: whenever the conversion returns, with header=false the
\* columns are named by the wire sheet's column keys, those of the
\* surviving columns in the order the keys are first seen; with header=true
\* by the values of the first surviving row.
C5_ColumnNames ==
    (pc = "converted" /\ Returned(converted)) =>
        IF header THEN TheFrame.columns = Head(LiveRectangle(TheGrid))
        ELSE TheFrame.columns = LiveKeySeq(TheGrid)

\* C5 witness: a header=false conversion of two rows whose columns are
\* named by the keys "1" and "2" (column "0" was pruned).
C5_Witness ==
    /\ pc = "converted" /\ ~header /\ Returned(converted)
    /\ TheFrame.columns = <<Key(1), Key(2)>>
    /\ Len(TheFrame.rows) = 2

\* ------------------------------------------------- tabular -> wire runs

\* An element holding one DataFrame (as add_sheet puts it); the caller
\* exports it and converts the exported grid back, both with `header`.
InitExport ==
    /\ \E sh \in Shapes(MaxFrameCells) :
          \E n \in [1..sh[2] -> NameChoices] :
             \E g \in Fillings(sh[1], sh[2], FrameChoices) :
                table = OneSheet(FrameOf(sh[1], sh[2], n, g))
    /\ header \in BOOLEAN
    /\ pc = "start"
    /\ converted = NotRun
    /\ exported = NotRun
    /\ reimported = NotRun
    /\ ElemIdle

CallConvertPdToExport ==
    /\ pc = "start"
    /\ exported' = ConvertPdToExport(table, header)
    /\ pc' = "exported"
    /\ UNCHANGED <<table, header, converted, reimported>>
    /\ UNCHANGED elemvars

\* table_to_pandas on the grid of the exported sheet.
CallTableToPandasOnExport ==
    /\ pc = "exported"
    /\ exported.st = "ok"
    /\ reimported' = TableToPandas(exported.val.sheets[1].sheet.dataTable, header)
    /\ pc' = "reimported"
    /\ UNCHANGED <<table, header, converted, exported>>
    /\ UNCHANGED elemvars

NextExport == CallConvertPdToExport \/ CallTableToPandasOnExport

SpecExport == InitExport /\ [][NextExport]_vars

\* ---------------------------------------------- tabular -> wire: claims

\* The DataFrame of the one-sheet runs and the grid exported for it.
TheInput == table[1].sheet
TheExport == exported.val.sheets[1].sheet
ExportDone == pc \in {"exported", "reimported"} /\ exported.st = "ok"

FullyNullRow(df, i) == \A j \in DOMAIN df.columns : IsNA(df.rows[i][j])
FullyNullColumn(df, j) == \A i \in DOMAIN df.rows : IsNA(df.rows[i][j])
IsInfinite(v) == v.k \in {"inf", "-inf"}

\* Rectangular, no fully-null row, no fully-null column.
RoundTripInput(df) ==
    /\ \A i \in DOMAIN df.rows : Len(df.rows[i]) = Len(df.columns)
    /\ \A i \in DOMAIN df.rows : ~FullyNullRow(df, i)
    /\ \A j \in DOMAIN df.columns : ~FullyNullColumn(df, j)

\* C1 as stated: for every rectangular sheet without fully-null row or
\* column, export with header=true followed by the wire-to-tabular
\* conversion with header=true gives back the column names and the rows.
C1_RoundTrip ==
    (pc = "reimported" /\ header /\ RoundTripInput(TheInput)) =>
        /\ Returned(reimported)
        /\ reimported.val.columns = TheInput.columns
        /\ reimported.val.rows = TheInput.rows

\* C1 amended: the same for every such sheet that holds no infinite cell
\* or column name and has at least one non-null column name (an infinite
\* value comes back as nan, and a header row of nulls is pruned as an empty
\* row).
C1_RoundTripOfFiniteSheets ==
    (/\ pc = "reimported" /\ header /\ RoundTripInput(TheInput)
     /\ \A i \in DOMAIN TheInput.rows : \A j \in DOMAIN TheInput.columns :
           ~IsInfinite(TheInput.rows[i][j])
     /\ \A j \in DOMAIN TheInput.columns : ~IsInfinite(TheInput.columns[j])
     /\ \E j \in DOMAIN TheInput.columns : ~IsNA(TheInput.columns[j])) =>
        /\ Returned(reimported)
        /\ reimported.val.columns = TheInput.columns
        /\ reimported.val.rows = TheInput.rows
        /\ reimported.val.index = TheInput.index

\* C1 witness: a 2 x 2 sheet with a nan cell and a nan column name that
\* went through the export and came back.
C1_Witness ==
    /\ pc = "reimported" /\ header /\ RoundTripInput(TheInput)
    /\ Len(TheInput.rows) = 2 /\ Len(TheInput.columns) = 2
    /\ TheInput.columns[2] = NaN /\ TheInput.rows[1][1] = NaN
    /\ \A i \in 1..2 : \A j \in 1..2 : ~IsInfinite(TheInput.rows[i][j])
    /\ Returned(reimported) /\ reimported.val.rows = TheInput.rows

\* The value of grid cell (i, j), rows and columns counted from 1.
GridCell(grid, i, j) == grid[i].cells[j].cell.value

\* A text is emitted as it is, a null as a null.
SamePlace(v, emitted) ==
    /\ v.k = "str" => emitted = v
    /\ IsNA(v) => IsNA(emitted)

\* C6: with header=true, wire row 0 holds the column names (cell j the name
\* of column j) and data row i is emitted at wire row i+1, its cells in
\* column order; with header=false data row i is emitted at wire row i and
\* there is no header row.
C6_HeaderRowAndShift ==
    ExportDone =>
        LET off == IF header THEN 1 ELSE 0
            g == TheExport.dataTable IN
        /\ Len(g) = Len(TheInput.rows) + off
        /\ \A i \in DOMAIN g : Len(g[i].cells) = Len(TheInput.columns)
        /\ header => \A j \in DOMAIN TheInput.columns :
                        SamePlace(TheInput.columns[j], GridCell(g, 1, j))
        /\ \A i \in DOMAIN TheInput.rows : \A j \in DOMAIN TheInput.columns :
              SamePlace(TheInput.rows[i][j], GridCell(g, i + off, j))

\* C6 witness: a 2 x 2 sheet of texts exported with its header row.
C6_Witness ==
    /\ ExportDone /\ header
    /\ Len(TheInput.rows) = 2 /\ Len(TheInput.columns) = 2
    /\ \A j \in 1..2 : GridCell(TheExport.dataTable, 1, j) = Str(0, j)
    /\ \A i \in 1..2 : \A j \in 1..2 :
          GridCell(TheExport.dataTable, i + 1, j) = Str(i, j)

\* C7: in every returned document, each sheet's rowCount is the number of
\* row keys of its grid and columnCount the number of column keys of every
\* row, the row keys are exactly 0 .. rowCount-1 and the column keys of
\* every row exactly 0 .. columnCount-1, every cell is a record with the
\* single field "value", and the sheet's name is its key under "sheets".
C7_DeclaredCountsMatchGrid ==
    (exported.st = "ok") =>
        \A s \in DOMAIN exported.val.sheets :
            LET e == exported.val.sheets[s]
                g == e.sheet.dataTable IN
            /\ e.sheet.name = e.name
            /\ e.sheet.rowCount = Len(g)
            /\ \A i \in DOMAIN g :
                  /\ g[i].key = IntVal(i - 1)
                  /\ Len(g[i].cells) = e.sheet.columnCount
                  /\ \A j \in DOMAIN g[i].cells :
                        /\ g[i].cells[j].key = IntVal(j - 1)
                        /\ g[i].cells[j].cell.type = "dict"
                        /\ g[i].cells[j].cell.keys = {"value"}

\* C7 witness: a document for a sheet of 2 rows and 2 named columns,
\* exported with its header row: rowCount 3, columnCount 2.
C7_Witness ==
    /\ ExportDone /\ header
    /\ TheInput.columns = <<Str(0, 1), Str(0, 2)>>
    /\ TheExport.rowCount = 3 /\ TheExport.columnCount = 2

\* C8: a cell holding nan, +inf or -inf is emitted as {"value": None},
\* every other cell with its value unchanged, and no emitted cell value
\* (header row included) is nan or infinite.
C8_NaNAndInfinityBecomeNull ==
    ExportDone =>
        LET off == IF header THEN 1 ELSE 0
            g == TheExport.dataTable IN
        /\ \A i \in DOMAIN TheInput.rows : \A j \in DOMAIN TheInput.columns :
              LET v == TheInput.rows[i][j] IN
              g[i + off].cells[j].cell =
                  [type |-> "dict", keys |-> {"value"},
                   value |-> IF v \in {NaN, Inf, NegInf} THEN None ELSE v]
        /\ \A i \in DOMAIN g : \A j \in DOMAIN g[i].cells :
              GridCell(g, i, j) \notin {NaN, Inf, NegInf}

\* C8 witness: an exported row holding +inf next to -inf.
C8_Witness ==
    /\ ExportDone
    /\ Len(TheInput.rows) >= 1 /\ Len(TheInput.columns) >= 2
    /\ TheInput.rows[1][1] = Inf /\ TheInput.rows[1][2] = NegInf
    /\ \A j \in 1..2 :
          GridCell(TheExport.dataTable, Len(TheExport.dataTable), j) = None

\* ------------------------------------------ wire -> tabular -> wire runs

\* An element whose table was fetched: one sheet, a full square grid whose
\* cells each hold a text or null.  The caller takes the tabular form with
\* table_to_pd(header, in_place=False) and exports it from an element that
\* holds it, with the same header setting.
InitPrune ==
    /\ \E f \in Fillings(GridSide, GridSide, {"null", "text"}) :
          table = OneSheet(Fetched(Sheet1, GridOf(GridSide, GridSide, f)))
    /\ header \in BOOLEAN
    /\ pc = "start"
    /\ converted = NotRun
    /\ exported = NotRun
    /\ reimported = NotRun
    /\ ElemIdle

CallExportOfConverted ==
    /\ pc = "converted"
    /\ converted.st = "ok"
    /\ exported' = ConvertPdToExport(converted.val, header)
    /\ pc' = "exported"
    /\ UNCHANGED <<table, header, converted, reimported>>
    /\ UNCHANGED elemvars

NextPrune == CallTableToPd \/ CallExportOfConverted

SpecPrune == InitPrune /\ [][NextPrune]_vars

\* The column keys of the grid under which every row holds null.
NullKeys(grid) == AllKeys(grid) \ LiveKeys(grid)

\* C9: a column that is null in every row does not count towards the
\* exported columnCount: a fetched grid taken through the tabular form and
\* exported again has the columns of the grid minus its all-null columns;
\* a 3 x 3 grid with one all-null column is exported with columnCount 2.
C9_NullColumnsNotCounted ==
    (pc = "exported" /\ exported.st = "ok") =>
        /\ TheExport.columnCount = GridSide - Cardinality(NullKeys(TheGrid))
        /\ Cardinality(NullKeys(TheGrid)) = 1 =>
              /\ TheExport.columnCount = GridSide - 1
              /\ \A i \in DOMAIN TheExport.dataTable :
                    Len(TheExport.dataTable[i].cells) = GridSide - 1

\* C9 witness: a grid with exactly one all-null column and a text in every
\* other cell, exported with one column less and all its rows.
C9_Witness ==
    /\ pc = "exported" /\ exported.st = "ok"
    /\ Cardinality(NullKeys(TheGrid)) = 1
    /\ \A i \in DOMAIN TheGrid : \A ck \in LiveKeys(TheGrid) :
          Held(TheGrid, i, ck) # NaN
    /\ TheExport.columnCount = GridSide - 1
    /\ TheExport.rowCount = GridSide

\* ---------------------------------------------------- the table element

\* response == 200 of _handle_response (lines 1121, 1124) compares the
\* requests.Response object itself with an int.  Response defines no
\* __eq__, so the comparison is by identity: False for every status.
ResponseEquals(resp, code) == FALSE

\* _handle_response(element, response, return_status=True), lines 1120-1143.
HandleResponse(resp, method) ==
    IF ResponseEquals(resp, 200) /\ method = "PUT" THEN TRUE
    ELSE IF ResponseEquals(resp, 201) /\ method = "POST" THEN TRUE
    ELSE FALSE

\* self.table.update({sheet_name: table}), line 928: the sheet replaces the
\* one of that name in place, or is appended.
DictUpdate(tbl, nm, sheet) ==
    IF \E i \in DOMAIN tbl : tbl[i].name = nm
    THEN [i \in DOMAIN tbl |->
             IF tbl[i].name = nm THEN [name |-> nm, sheet |-> sheet] ELSE tbl[i]]
    ELSE Append(tbl, [name |-> nm, sheet |-> sheet])

\* The sheets of the element runs.  A caller adds a DataFrame of one named
\* column and one row.  A server sends one of three grids of one column: a
\* header over a value; a null row over a value (table_to_pandas with
\* header=true raises KeyError); no row (it raises IndexError).
SheetNames == <<"A", "B">>
ElemFrames ==
    {FrameOf(1, 1, [j \in {1} |-> "text"], [ij \in {1} \X {1} |-> "text"])}
ElemGridSeq ==
    <<GridOf(2, 1, [ij \in (1..2) \X {1} |-> "text"]),
      GridOf(2, 1, [ij \in (1..2) \X {1} |-> IF ij[1] = 1 THEN "null" ELSE "text"]),
      <<>>>>
ElemGrids == Range(ElemGridSeq)

\* The documents of no, one or two sheets a server answers a GET with.
ServerSheets ==
    {<<>>}
    \cup
    {<<[name |-> SheetNames[1], sheet |-> Fetched(SheetNames[1], g)]>> :
        g \in ElemGrids}
    \cup
    {<<[name |-> SheetNames[1], sheet |-> Fetched(SheetNames[1], g1)],
       [name |-> SheetNames[2], sheet |-> Fetched(SheetNames[2], g2)]>> :
        g1 \in ElemGrids, g2 \in ElemGrids}

StatusCodes == {200, 201, 400}
EntryIds == {"", "e1"}

\* What the server answers the GET of a constructor with: the record of a
\* table of at most one sheet, a record that holds the first field only,
\* an error body.
TableLoads ==
    {[kind |-> "record", sheets |-> sh, entry_id |-> e] :
        sh \in {d \in ServerSheets : Len(d) <= 1}, e \in EntryIds \ {""}}
    \cup {[kind |-> "partial", sheets |-> <<>>, entry_id |-> "e1"],
          [kind |-> "error", sheets |-> <<>>, entry_id |-> ""]}

LoadResponse(load) ==
    CASE load.kind = "record" ->
             [status_code |-> 200, body |-> [k \in TableKeys |-> <<"srv", k>>]]
      [] load.kind = "partial" ->
             [status_code |-> 200,
              body |-> [entry_id |-> <<"srv", "entry_id">>]]
      [] OTHER -> [status_code |-> 404, body |-> [message |-> "Not found"]]

\* requests.get(f"{user_info.api_address}elements/table/{self.element_id}",
\* headers=user_info.auth_token), lines 709-713.
TableGet(id, s) ==
    WithHeaders([method |-> "GET", resource |-> "elements/table", id |-> id], s)

\* Lines 666-672: the attributes __init__ assigns.  self.table is the
\* argument, which is the one dict of the parameter default when the caller
\* passes none.
FreshTable(s, id, entry) ==
    [obj |-> TableObject(IF s.kind = "None" THEN "" ELSE UserId),
     element_id |-> id, entry_id |-> entry, table |-> default_table,
     shares |-> TRUE]

\* Lines 714-718: load_table assigns the fields of the record; self.table
\* is the dict of the answer.
LoadedTable(id, load) ==
    [obj |-> TableLoaded(TableObject(UserId)),
     element_id |-> id, entry_id |-> load.entry_id, table |-> load.sheets,
     shares |-> FALSE]

\* Line 673: the constructor loads the table.
Loads(s, id) == s.kind # "None" /\ id # ""

\* The server is not asked.
NoLoad == [kind |-> "none", sheets |-> <<>>, entry_id |-> ""]

\* How a constructor that sent n requests ends: what it raises or None,
\* the element, the outcome of its table_to_pd.
Built(st, n, elem, conv) == [st |-> st, sent |-> n, elem |-> elem, conv |-> conv]

\* Lines 673-676 after the record was assigned: with import_as_pd,
\* load_table calls table_to_pd(header) and __init__ calls it once more;
\* what it raises leaves the constructor.
BuiltLoaded(id, load, conv) ==
    Built(IF conv.st = "raise" THEN conv ELSE ReturnNone, 1,
          LoadedTable(id, load), conv)

\* TableElement(user_info, element_id, entry_id, import_as_pd=, header=),
\* lines 666-676.  Line 671 reads user_info.user_id unless user_info is
\* None; the table is loaded when user_info is a LabFolderUserInfo and the
\* element id is not empty; a body that lacks a field raises KeyError.
Constructed(s, id, entry, import_as_pd, hdr, load) ==
    IF s.kind # "None" /\ "user_id" \notin s.attrs
    THEN Built(Raise("AttributeError"), 0, FreshTable(s, id, entry), NotRun)
    ELSE IF ~Loads(s, id)
    THEN Built(ReturnNone, 0, FreshTable(s, id, entry), NotRun)
    ELSE IF load.kind # "record"
    THEN Built(Raise("KeyError"), 1, FreshTable(s, id, entry), NotRun)
    ELSE BuiltLoaded(id, load,
                     IF import_as_pd THEN TableToPd(load.sheets, hdr, TRUE)
                     ELSE NotRun)

\* The element of a constructor that returned is the element of the state.
ElementIs(elem) ==
    /\ obj = elem.obj
    /\ element_id = elem.element_id
    /\ entry_id = elem.entry_id
    /\ table = elem.table
    /\ shares_default = elem.shares

InitBuilt(c, id, hdr, load) ==
    /\ c.st = ReturnNone
    /\ ElementIs(c.elem)
    /\ converted = c.conv
    /\ header = (IF c.sent = 0 THEN TRUE ELSE hdr)
    /\ sent = c.sent
    /\ request = (IF c.sent = 0 THEN NoRequest ELSE TableGet(id, LoggedIn))
    /\ response = (IF c.sent = 0 THEN NoResponse ELSE LoadResponse(load))

\* TableElement(user_info, element_id, entry_id, import_as_pd=, header=)
\* with a logged-in session and the default table {}, once the constructor
\* has returned: a new table (element_id ""), or a stored one, which the
\* constructor has loaded.
Init ==
    /\ session = LoggedIn
    /\ default_table = <<>>
    /\ \E id \in {"", "t1"}, entry \in EntryIds, import_as_pd \in BOOLEAN,
          hdr \in BOOLEAN, load \in TableLoads \cup {NoLoad} :
          InitBuilt(Constructed(LoggedIn, id, entry, import_as_pd, hdr, load),
                    id, hdr, load)
    /\ pc = "constructed"
    /\ exported = NotRun
    /\ reimported = NotRun
    /\ outcome = NotRun
    /\ before = NoSnapshot

\* The fields of the element when its constructor begins to load.
BeganWith(op, arg, expects, elem) ==
    [op |-> op, arg |-> arg, expects |-> expects, obj |-> elem.obj,
     element_id |-> elem.element_id, entry_id |-> elem.entry_id,
     table |-> elem.table]

\* The constructor returned: its element replaces the one of the state.
\* It raised: no element was built, the one of the state is left.
ConstructedAs(c, id, entry, hdr, load) ==
    /\ outcome' = c.st
    /\ IF c.st = ReturnNone
       THEN /\ obj' = c.elem.obj
            /\ element_id' = c.elem.element_id
            /\ entry_id' = c.elem.entry_id
            /\ table' = c.elem.table
            /\ shares_default' = c.elem.shares
       ELSE UNCHANGED <<obj, element_id, entry_id, table, shares_default>>
    /\ converted' = c.conv
    /\ header' = (IF c.sent = 0 THEN header ELSE hdr)
    /\ sent' = c.sent
    /\ request' = (IF c.sent = 0 THEN request ELSE TableGet(id, session))
    /\ response' = (IF c.sent = 0 THEN NoResponse ELSE LoadResponse(load))
    /\ before' = BeganWith("__init__", id, IF c.sent = 0 THEN {} ELSE TableKeys,
                           FreshTable(session, id, entry))

\* TableElement(user_info, element_id, entry_id, import_as_pd=, header=)
\* called while another table element exists: the whole constructor.  The
\* entry id is passed when nothing is loaded (a load overwrites it), the
\* header when import_as_pd is (nothing else reads it).
ConstructTable ==
    /\ obj.cls = "TableElement"
    /\ \E id \in {"", "t1"} :
          \E entry \in IF Loads(session, id) THEN {""} ELSE EntryIds,
             import_as_pd \in IF Loads(session, id) THEN BOOLEAN ELSE {TRUE},
             load \in IF Loads(session, id) THEN TableLoads
                      ELSE {NoLoad} :
          \E hdr \in IF Loads(session, id) /\ import_as_pd THEN BOOLEAN
                      ELSE {TRUE} :
             ConstructedAs(Constructed(session, id, entry, import_as_pd, hdr,
                                       load), id, entry, hdr, load)
    /\ pc' = "__init__"
    /\ exported' = NotRun
    /\ UNCHANGED <<reimported, session, default_table>>

\* add_sheet(sheet_name, table) with a DataFrame, lines 923-929.
AddSheet ==
    \E n \in DOMAIN SheetNames, df \in ElemFrames :
        /\ table' = DictUpdate(table, SheetNames[n], df)
        /\ pc' = "add_sheet"
        /\ sent' = 0
        /\ outcome' = ReturnNone
        /\ converted' = NotRun
        /\ exported' = NotRun
        /\ UNCHANGED <<header, reimported, element_id, entry_id, request>>
        /\ response' = NoResponse
        /\ before' = Snapshot("add_sheet", "", {})
        /\ default_table' = (IF shares_default THEN table' ELSE default_table)
        /\ UNCHANGED <<obj, session, shares_default>>

\* load_table(user_info, to_pd, header) answered with a table record,
\* lines 702-721.  The fields are set before table_to_pd runs, so they stay
\* set when it raises.
LoadTable ==
    \E sheets \in ServerSheets, to_pd \in BOOLEAN, hdr \in BOOLEAN,
       eid \in EntryIds \ {""} :
        /\ element_id # ""
        /\ request' = WithHeaders([method |-> "GET",
                                    resource |-> "elements/table",
                                    id |-> element_id], session)
        /\ sent' = 1
        /\ entry_id' = eid
        /\ table' = sheets
        /\ header' = hdr
        /\ converted' = IF to_pd THEN TableToPd(sheets, hdr, TRUE) ELSE NotRun
        /\ outcome' = IF to_pd /\ converted'.st = "raise" THEN converted'
                      ELSE ReturnNone
        /\ exported' = NotRun
        /\ pc' = "load_table"
        /\ UNCHANGED <<reimported, element_id>>
        /\ obj' = TableLoaded(obj)
        /\ response' = [status_code |-> 200,
                        body |-> [k \in TableKeys |-> <<"srv", k>>]]
        /\ before' = Snapshot("load_table", element_id, TableKeys)
        /\ shares_default' = FALSE
        /\ UNCHANGED <<session, default_table>>

\* load_table without an element id, lines 702-704: nothing is sent.
LoadTableNoId ==
    /\ element_id = ""
    /\ pc' = "load_table"
    /\ sent' = 0
    /\ outcome' = ReturnNone
    /\ converted' = NotRun
    /\ exported' = NotRun
    /\ UNCHANGED <<table, header, reimported, element_id, entry_id, request>>
    /\ response' = NoResponse
    /\ before' = Snapshot("load_table", element_id, TableKeys)
    /\ UNCHANGED <<obj, session,
                   default_table, shares_default>>

\* table_to_pd(header, in_place=True) called by the user, lines 819-905.
\* The frames are bound to the local name `table` (lines 898-903); self.table
\* is not assigned.
TableToPdCall ==
    \E hdr \in BOOLEAN, in_place \in BOOLEAN :
        /\ table # <<>>
        /\ header' = hdr
        /\ converted' = TableToPd(table, hdr, in_place)
        /\ outcome' = converted'
        /\ before' = Snapshot("table_to_pd", [in_place |-> in_place], {})
        /\ sent' = 0
        /\ exported' = NotRun
        /\ pc' = "table_to_pd"
        /\ UNCHANGED <<table, reimported, element_id, entry_id, request>>
        /\ response' = NoResponse
        /\ UNCHANGED <<obj, session,
                   default_table, shares_default>>

\* pd.DataFrame(d) for a sheet in wire form, a dict of three scalars and
\* the dict "data": one row, labelled by the key of "data", the scalars
\* repeated in it, the grid in the column "data".
FrameOfDict(sheet) ==
    [kind |-> "df",
     labels |-> "text",
     index |-> <<"dataTable">>,
     columns |-> <<Text("name"), Text("rowCount"), Text("columnCount"),
                   Text("data")>>,
     rows |-> <<<<Text(sheet.name), IntVal(sheet.rowCount),
                  IntVal(sheet.columnCount), DictVal(sheet.dataTable)>>>>]

\* pd.DataFrame(d) for a dict of columns {column: {label: value}}: the
\* columns in key order, the rows in the order of the inner keys.
ColumnKeys(d) == [j \in DOMAIN d.columns |-> d.columns[j].key]

ColumnLabels(d) ==
    IF d.columns = <<>> THEN <<>>
    ELSE [i \in DOMAIN d.columns[1].cells |-> d.columns[1].cells[i].key]

ColumnRows(d) ==
    [i \in DOMAIN ColumnLabels(d) |->
        [j \in DOMAIN d.columns |-> d.columns[j].cells[i].value]]

FrameOfColumns(d) ==
    IF TextLabels(d)
    THEN [kind |-> "df", labels |-> "text", index |-> ColumnLabels(d),
          columns |-> ColumnKeys(d), rows |-> ColumnRows(d)]
    ELSE [kind |-> "df", index |-> ColumnLabels(d),
          columns |-> ColumnKeys(d), rows |-> ColumnRows(d)]

\* pd.DataFrame(table[sheet]), line 1053.
FrameOfSheet(sheet) ==
    IF sheet.kind = "wire" THEN FrameOfDict(sheet) ELSE FrameOfColumns(sheet)

\* df.to_dict(): {column: {label: value}}.
DictColumns(df) ==
    [j \in DOMAIN df.columns |->
        [key |-> df.columns[j],
         cells |-> [i \in DOMAIN df.index |->
                       [key |-> df.index[i], value |-> df.rows[i][j]]]]]

ColumnDict(df) ==
    IF TextLabels(df)
    THEN [kind |-> "dict", labels |-> "text", columns |-> DictColumns(df)]
    ELSE [kind |-> "dict", columns |-> DictColumns(df)]

\* The loop of dict_to_table, lines 1051-1055: a sheet that is a dict (in
\* wire form, or a dict of columns) becomes a DataFrame, a DataFrame is
\* left.
DictSheets(tbl) ==
    [i \in DOMAIN tbl |->
        [name |-> tbl[i].name,
         sheet |-> IF IsDataFrame(tbl[i].sheet) THEN tbl[i].sheet
                   ELSE FrameOfSheet(tbl[i].sheet)]]

\* The loop of to_dict, lines 1082-1088, and of table_to_dict, lines
\* 948-952: a DataFrame becomes a dict, a dict is left.
ToDictSheets(tbl) ==
    [i \in DOMAIN tbl |->
        [name |-> tbl[i].name,
         sheet |-> IF IsDataFrame(tbl[i].sheet) THEN ColumnDict(tbl[i].sheet)
                   ELSE tbl[i].sheet]]

\* A variant that works on self.table whatever in_place is.
StoredAfterAlways(tbl, result, in_place) == result

\* if in_place: table = self.table / else: table = deepcopy(self.table)
\* (lines 1046-1049, 1078-1081): the loop assigns into self.table itself
\* when in_place, into a copy otherwise.
StoredAfter(tbl, result, in_place) == IF in_place THEN result ELSE tbl

\* dict_to_table(in_place), lines 1046-1058.
DictToTable(tbl, in_place) ==
    [table |-> StoredAfter(tbl, DictSheets(tbl), in_place),
     ret |-> IF in_place THEN ReturnNone ELSE Ok(DictSheets(tbl))]

\* to_dict(in_place), lines 1078-1091.
TableToDict(tbl, in_place) ==
    [table |-> StoredAfter(tbl, ToDictSheets(tbl), in_place),
     ret |-> IF in_place THEN ReturnNone ELSE Ok(ToDictSheets(tbl))]

\* A call that sends nothing and touches the sheets only.  The dict it
\* assigns into is the default of the constructor when the element holds
\* that one.
LocalCall(op, arg) ==
    /\ pc' = op
    /\ sent' = 0
    /\ converted' = NotRun
    /\ exported' = NotRun
    /\ response' = NoResponse
    /\ before' = Snapshot(op, arg, {})
    /\ default_table' = (IF shares_default THEN table' ELSE default_table)
    /\ UNCHANGED <<header, reimported, element_id, entry_id, request, obj,
                   session, shares_default>>

\* dict_to_table(in_place) called by the user.
DictToTableCall ==
    \E in_place \in BOOLEAN :
        /\ table' = DictToTable(table, in_place).table
        /\ outcome' = DictToTable(table, in_place).ret
        /\ LocalCall("dict_to_table", [in_place |-> in_place])

\* to_dict(in_place) called by the user.
ToDictCall ==
    \E in_place \in BOOLEAN :
        /\ table' = TableToDict(table, in_place).table
        /\ outcome' = TableToDict(table, in_place).ret
        /\ LocalCall("to_dict", [in_place |-> in_place])

\* table_to_dict() called by the user, lines 948-952: the DataFrames of
\* self.table are replaced by their dicts; None is returned.
TableToDictCall ==
    /\ table' = ToDictSheets(table)
    /\ outcome' = ReturnNone
    /\ LocalCall("table_to_dict", "")

\* convert_pd_to_export(header) called by the user.
ConvertCall ==
    \E hdr \in BOOLEAN :
        /\ header' = hdr
        /\ exported' = ConvertPdToExport(table, hdr)
        /\ outcome' = IF exported'.st = "raise" THEN exported' ELSE ReturnNone
        /\ sent' = 0
        /\ converted' = NotRun
        /\ pc' = "convert_pd_to_export"
        /\ UNCHANGED <<table, reimported, element_id, entry_id, request>>
        /\ response' = NoResponse
        /\ before' = Snapshot("convert_pd_to_export", "", {})
        /\ UNCHANGED <<obj, session,
                   default_table, shares_default>>

\* write_to_labfolder(user_info, entry_id, header) without any entry id,
\* lines 752-754.
WriteNoEntry ==
    /\ entry_id = ""
    /\ pc' = "write_to_labfolder"
    /\ exported' = NotRun
    /\ converted' = NotRun
    /\ sent' = 0
    /\ outcome' = ReturnNone
    /\ UNCHANGED <<table, header, reimported, element_id, entry_id, request>>
    /\ response' = NoResponse
    /\ before' = Snapshot("write_to_labfolder", "", {"id"})
    /\ UNCHANGED <<obj, session,
                   default_table, shares_default>>

\* write_to_labfolder(user_info, entry_id, header), lines 750-776, with an
\* entry id given or held.
WriteToLabfolder ==
    \E arg \in EntryIds, hdr \in BOOLEAN, status \in StatusCodes :
        LET eid == IF arg = "" THEN entry_id ELSE arg
            content == exported' IN
        /\ eid # ""
        /\ header' = hdr
        /\ exported' = ConvertPdToExport(table, hdr)
        /\ converted' = NotRun
        /\ pc' = "write_to_labfolder"
        /\ IF content.st = "ok"
           THEN /\ request' = WithHeaders([method |-> "POST",
                                            resource |-> "elements/table",
                                            entry_id |-> eid,
                                            content |-> content.val], session)
                /\ sent' = 1
                /\ outcome' = ReturnNone
                /\ response' = PostAnswer(status)
                /\ element_id' =
                       IF HandleResponse(response', "POST")
                       THEN response'.body.id ELSE element_id
           ELSE /\ request' = request
                /\ sent' = 0
                /\ outcome' = IF content.st = "raise" THEN content ELSE ReturnNone
                /\ response' = NoResponse
                /\ element_id' = element_id
        /\ before' = Snapshot("write_to_labfolder", eid, {"id"})
        /\ UNCHANGED <<table, reimported, entry_id, obj, session,
                   default_table, shares_default>>

\* update_on_labfolder(user_info, header), lines 798-817.
UpdateOnLabfolder ==
    \E hdr \in BOOLEAN, status \in StatusCodes :
        LET content == exported' IN
        /\ header' = hdr
        /\ exported' = ConvertPdToExport(table, hdr)
        /\ converted' = NotRun
        /\ pc' = "update_on_labfolder"
        /\ IF content.st = "ok"
           THEN /\ request' = WithHeaders([method |-> "PUT",
                                            resource |-> "elements/table",
                                            id |-> element_id,
                                            entry_id |-> entry_id,
                                            content |-> content.val], session)
                /\ sent' = 1
                /\ outcome' = ReturnNone
                /\ response' = PutAnswer(status)
           ELSE /\ request' = request
                /\ sent' = 0
                /\ outcome' = IF content.st = "raise" THEN content ELSE ReturnNone
                /\ response' = NoResponse
        /\ before' = Snapshot("update_on_labfolder", element_id, {})
        /\ UNCHANGED <<table, reimported, element_id, entry_id, obj, session,
                   default_table, shares_default>>

Next ==
    \/ AddSheet
    \/ LoadTable
    \/ LoadTableNoId
    \/ ConstructTable
    \/ TableToPdCall
    \/ ConvertCall
    \/ WriteNoEntry
    \/ WriteToLabfolder
    \/ UpdateOnLabfolder

Spec == Init /\ [][Next]_vars

\* The calls that rewrite the sheets of self.table (dict_to_table, to_dict,
\* table_to_dict), among the calls that fill the table and convert it.
NextConv ==
    \/ AddSheet
    \/ LoadTable
    \/ TableToPdCall
    \/ DictToTableCall
    \/ ToDictCall
    \/ TableToDictCall
    \/ ConvertCall

SpecConv == Init /\ [][NextConv]_vars

\* C10: convert_pd_to_export never raises and is all-or-nothing: called on
\* any table (all sheets tabular, all in wire form, a mix), directly or by
\* write_to_labfolder / update_on_labfolder, it returns a document that
\* covers every sheet of the table or returns None, and the write or
\* update sends no request when it fails.
C10_ExportAllOrNothing ==
    (pc \in {"convert_pd_to_export", "write_to_labfolder", "update_on_labfolder"}
     /\ exported # NotRun) =>
        /\ exported.st \in {"ok", "None"}
        /\ exported.st = "ok" =>
              /\ Len(exported.val.sheets) = Len(table)
              /\ \A i \in DOMAIN table :
                    exported.val.sheets[i].name = table[i].name
        /\ exported.st # "ok" => sent = 0

\* The sheets of a table that are in tabular form.
AllTabular(tbl) == \A i \in DOMAIN tbl : IsDataFrame(tbl[i].sheet)
AllWire(tbl) == \A i \in DOMAIN tbl : tbl[i].sheet.kind = "wire"

\* C11: after table_to_pd(in_place=True), after load_table(to_pd=True) and
\* after the construction of a TableElement with an element id and
\* import_as_pd=True, whenever the call returned, every sheet of the
\* element's table is in tabular form.
C11_InPlaceConversionStored ==
    (/\ pc \in {"table_to_pd", "load_table", "__init__"}
     /\ converted.st = "None"
     /\ outcome = ReturnNone) =>
        AllTabular(table)

\* The texts a grid holds, and the texts an exported document holds in the
\* sheet at place s.
TextsOfGrid(grid) ==
    {Held(grid, i, ck) : i \in DOMAIN grid, ck \in AllKeys(grid)} \ {NaN}
TextsOfExport(doc, s) ==
    LET g == doc.sheets[s].sheet.dataTable IN
    UNION {{g[i].cells[j].cell.value : j \in DOMAIN g[i].cells} : i \in DOMAIN g}

\* C12: for a table fetched with load_table (all its sheets in wire form),
\* a following convert_pd_to_export, called directly or by
\* write_to_labfolder / update_on_labfolder, returns a wire document that
\* has every sheet of the table and holds every non-null cell of the
\* fetched sheet.
C12_FetchThenWrite ==
    (/\ pc \in {"convert_pd_to_export", "write_to_labfolder",
                "update_on_labfolder"}
     /\ exported # NotRun
     /\ table # <<>> /\ AllWire(table)) =>
        /\ exported.st = "ok"
        /\ Len(exported.val.sheets) = Len(table)
        /\ \A s \in DOMAIN table :
              TextsOfGrid(table[s].sheet.dataTable)
                  \subseteq TextsOfExport(exported.val, s)

\* ------------------------------------------ elements, entries, sessions

ElementIds == {"", "x1"}
Texts == {"", "txt"}

\* DataElement(element_id, description), lines 35-46.
DataObject(id, d) ==
    [cls |-> "DataElement",
     f |-> [type |-> "DATA", element_id |-> id, description |-> d]]

\* TextElement(content, element_id), lines 330-342.
TextObject(id, c) ==
    [cls |-> "TextElement",
     f |-> [type |-> "TEXT", element_id |-> id, content |-> c, id |-> ""]]

\* ImageElement(title, element_id), lines 227-243.
ImageObject(id) ==
    [cls |-> "ImageElement",
     f |-> [type |-> "IMAGE", title |-> "", element_id |-> id,
            original_file_content_type |-> "image/png",
            creation_date |-> "", image |-> "None", owner_id |-> ""]]

\* DescriptiveDataElement(title, element_id, description), lines 162-166.
DescriptiveObject(id, t, d) ==
    [cls |-> "DescriptiveDataElement",
     f |-> [type |-> "DESCRIPTIVE_DATA_ELEMENT", title |-> t,
            element_id |-> id, description |-> d]]

\* FileElement(element_id), lines 196-203.
FileObject(id) ==
    [cls |-> "FileElement", f |-> [type |-> "FILE", element_id |-> id]]

\* DataElementGroup(title, children), lines 466-482: element_id is "".
GroupObject(t, ch) ==
    [cls |-> "DataElementGroup",
     f |-> [type |-> "DATA_ELEMENT_GROUP", title |-> t, element_id |-> "",
            children |-> ch]]

\* The attributes Entry.__init__ assigns before it fetches anything,
\* entries.py lines 52-58; the whole constructor is ConstructEntry.
EntryObject(id) ==
    [cls |-> "Entry",
     f |-> [entry_id |-> id, title |-> "", author_id |-> "",
            project_id |-> "", tags |-> <<>>, creation_date |-> "",
            elements |-> <<>>]]

\* What evaluating requests.get/post/put(f"{user_info.api_address}...",
\* headers=user_info.auth_token) does before anything is sent: with
\* user_info None the attribute access raises AttributeError; with the
\* session of a failed login the URL "/api/v2/..." has no scheme and
\* requests raises MissingSchema; otherwise the request is sent.
Transport(s) ==
    CASE s.kind = "None" -> Raise("AttributeError")
      [] s.api_address = "/api/v2/" -> Raise("MissingSchema")
      [] OTHER -> Ok("sent")

\* self.a = data[k] for each <<a, k>> of pairs in turn: KeyError at the
\* first key the body lacks, the earlier fields stay assigned.
RECURSIVE AssignFrom(_, _, _)
AssignFrom(f, pairs, body) ==
    IF pairs = <<>> THEN [f |-> f, st |-> ReturnNone]
    ELSE IF Head(pairs)[2] \notin DOMAIN body
         THEN [f |-> f, st |-> Raise("KeyError")]
         ELSE AssignFrom([f EXCEPT ![Head(pairs)[1]] = body[Head(pairs)[2]]],
                         Tail(pairs), body)

\* The <<attribute, key>> pairs of the loads, in the order of the code.
DataPairs == <<<<"description", "description">>, <<"element_id", "id">>>>
TextPairs == <<<<"content", "content">>, <<"element_id", "id">>>>
ImagePairs == <<<<"title", "title">>, <<"owner_id", "owner_id">>,
                <<"creation_date", "creation_date">>>>
EntryPairs == <<<<"author_id", "author_id">>,
                <<"creation_date", "creation_date">>, <<"tags", "tags">>,
                <<"project_id", "project_id">>, <<"title", "title">>>>

KeysOf(pairs) == {pairs[i][2] : i \in DOMAIN pairs}

\* The answers of the server to the GET of a record: the record (its id the
\* requested one), a record that holds the first field only, or an error.
GetAnswers(pairs, id) ==
    {[status_code |-> 200,
      body |-> [k \in KeysOf(pairs) |-> IF k = "id" THEN id ELSE <<"srv", k>>]],
     [status_code |-> 200,
      body |-> [k \in {pairs[1][2]} |-> <<"srv", k>>]],
     [status_code |-> 404, body |-> [message |-> "Not found"]]}

\* How a call on an object ends: the object, the outcome, the requests.
Result(o, out, n, req, resp) ==
    [obj |-> o, outcome |-> out, sent |-> n, request |-> req, response |-> resp]

\* print(...); return None before anything is sent.
Quiet(o) == Result(o, ReturnNone, 0, request, NoResponse)

\* An exception raised while the request is built.
NotSent(o, t) == Result(o, t, 0, request, NoResponse)

\* load_data (lines 64-76) and load_text (lines 363-375): the id check, the
\* GET, the assignments from the body.
LoadAssigned(o, req, ans, a) ==
    Result([o EXCEPT !.f = a.f], a.st, 1, req, ans)

LoadSent(o, id, resource, pairs, t, ans) ==
    IF t.st = "raise" THEN NotSent(o, t)
    ELSE LoadAssigned(o, [method |-> "GET", resource |-> resource, id |-> id],
                      ans, AssignFrom(o.f, pairs, ans.body))

LoadRecord(o, id, resource, pairs, s, ans) ==
    IF id = "" THEN Quiet(o)
    ELSE LoadSent(o, id, resource, pairs, Transport(s), ans)

\* load_image, lines 262-281: both GETs are sent before the fields are
\* assigned; the image is opened from the bytes of the second answer.
ImageAssigned(o, req, ans, a) ==
    Result([o EXCEPT !.f = IF a.st = ReturnNone
                           THEN [a.f EXCEPT !.image = "Image"] ELSE a.f],
           a.st, 2, req, ans)

ImageSent(o, id, t, ans) ==
    IF t.st = "raise" THEN NotSent(o, t)
    ELSE ImageAssigned(o, [method |-> "GET",
                           resource |-> "elements/image/original-data",
                           id |-> id],
                       ans, AssignFrom(o.f, ImagePairs, ans.body))

LoadImageRecord(o, id, s, ans) ==
    IF id = "" THEN Quiet(o) ELSE ImageSent(o, id, Transport(s), ans)

\* The tail of write_to_labfolder: status = _handle_response(...);
\* if status: self.<attr> = response.json()["id"].  DataElement assigns
\* element_id (line 106), TextElement assigns id (line 407),
\* DataElementGroup assigns nothing (line 541).
Captured(o, attr, ans) ==
    IF attr # "" /\ HandleResponse(ans, "POST")
    THEN [o EXCEPT !.f[attr] = ans.body.id] ELSE o

WriteSent(o, req, attr, t, ans) ==
    IF t.st = "raise" THEN NotSent(o, t)
    ELSE Result(Captured(o, attr, ans), ReturnNone, 1, req, ans)

\* DataElement.write_to_labfolder, lines 95-107.
WriteData(o, entry, s, ans) ==
    IF entry = "" THEN Quiet(o)
    ELSE WriteSent(o, [method |-> "POST", resource |-> "elements/data",
                       entry_id |-> entry,
                       content |-> [description |-> o.f.description]],
                   "element_id", Transport(s), ans)

\* TextElement.write_to_labfolder, lines 396-408.
WriteText(o, entry, s, ans) ==
    IF entry = "" THEN Quiet(o)
    ELSE WriteSent(o, [method |-> "POST", resource |-> "elements/text",
                       entry_id |-> entry,
                       content |-> [content |-> o.f.content]],
                   "id", Transport(s), ans)

\* to_dict of a child: DescriptiveDataElement (lines 168-174) and
\* DataElementGroup (lines 502-506) return their record, TableElement.to_dict
\* (in_place=True, lines 1078-1091) returns None; DataElement, TextElement,
\* FileElement and ImageElement define no to_dict (AttributeError).
RECURSIVE ToDict(_)
RECURSIVE ChildDicts(_, _)
RECURSIVE GroupDict(_)

ChildDictsNext(children, done, d) ==
    IF d.st = "raise" THEN d
    ELSE ChildDicts(Tail(children), Append(done, d.val))

\* [child.to_dict() for child in self.children], line 505.
ChildDicts(children, done) ==
    IF children = <<>> THEN Ok(done)
    ELSE ChildDictsNext(children, done, ToDict(Head(children)))

GroupDictOf(o, ch) ==
    IF ch.st = "raise" THEN ch
    ELSE Ok([type |-> o.f.type, title |-> o.f.title, children |-> ch.val])

\* DataElementGroup.to_dict, lines 502-506.
GroupDict(o) == GroupDictOf(o, ChildDicts(o.f.children, <<>>))

ToDict(o) ==
    CASE o.cls = "DataElementGroup" -> GroupDict(o)
      [] o.cls = "DescriptiveDataElement" ->
             Ok([type |-> o.f.type, title |-> o.f.title,
                 description |-> o.f.description])
      [] o.cls = "TableElement" -> Ok([cls |-> "NoneType"])
      [] OTHER -> Raise("AttributeError")

WriteGroupBuilt(o, entry, s, ans, d) ==
    IF d.st = "raise" THEN NotSent(o, d)
    ELSE WriteSent(o, [method |-> "POST", resource |-> "elements/data",
                       entry_id |-> entry,
                       content |-> [data_elements |-> <<d.val>>,
                                    locked |-> FALSE]],
                   "", Transport(s), ans)

\* DataElementGroup.write_to_labfolder, lines 527-542: the content is built
\* (to_dict) before the request.
WriteGroup(o, entry, s, ans) ==
    IF entry = "" THEN Quiet(o)
    ELSE WriteGroupBuilt(o, entry, s, ans, GroupDict(o))

UpdateSent(o, req, t, ans) ==
    IF t.st = "raise" THEN NotSent(o, t)
    ELSE Result(o, ReturnNone, 1, req, ans)

\* DataElement.update_on_labfolder, lines 124-134: the guard is on the
\* description, not on the element id.
UpdateData(o, s, ans) ==
    IF o.f.description = "" THEN Quiet(o)
    ELSE UpdateSent(o, [method |-> "PUT", resource |-> "elements/data",
                        id |-> o.f.element_id,
                        content |-> [id |-> o.f.element_id,
                                     description |-> o.f.description]],
                    Transport(s), ans)

\* TextElement.update_on_labfolder, lines 427-437.
UpdateText(o, s, ans) ==
    IF o.f.content = "" THEN Quiet(o)
    ELSE UpdateSent(o, [method |-> "PUT", resource |-> "elements/text",
                        id |-> o.f.element_id,
                        content |-> [id |-> o.f.element_id,
                                     content |-> o.f.content]],
                    Transport(s), ans)

UpdateGroupBuilt(o, s, ans, d) ==
    IF d.st = "raise" THEN NotSent(o, d)
    ELSE UpdateSent(o, [method |-> "PUT", resource |-> "elements/data",
                        id |-> o.f.element_id,
                        content |-> [id |-> o.f.element_id,
                                     title |-> o.f.title,
                                     data_elements |-> <<d.val>>,
                                     locked |-> FALSE]],
                    Transport(s), ans)

\* DataElementGroup.update_on_labfolder, lines 562-578.
UpdateGroup(o, s, ans) ==
    IF o.f.element_id = "" THEN Quiet(o)
    ELSE UpdateGroupBuilt(o, s, ans, GroupDict(o))

\* Entry.make_entry, entries.py lines 160-176.  The payload reads
\* user_info.user_id, which a session without identity does not have.
MakeEntryBuilt(o, s) ==
    CASE s.kind = "None" -> Raise("AttributeError")
      [] "user_id" \notin s.attrs -> Raise("AttributeError")
      [] OTHER -> Transport(s)

\* json=entry of requests.post/put: an element object in self.elements is
\* not JSON serializable (TypeError while the body is prepared, after the
\* URL); the fetched dicts and None are.
Serializable(elements) ==
    \A i \in DOMAIN elements :
        "cls" \in DOMAIN elements[i] => elements[i].cls = "NoneType"

\* A variant that never stores the id of the answer.
MakeEntrySentNoCapture(o, t, ans) ==
    IF t.st = "raise" THEN NotSent(o, t)
    ELSE IF ~Serializable(o.f.elements) THEN NotSent(o, Raise("TypeError"))
    ELSE Result(o, ReturnNone, 1,
                [method |-> "POST", resource |-> "entries",
                 content |-> [title |-> o.f.title, author_id |-> UserId,
                              project_id |-> o.f.project_id]],
                ans)

MakeEntrySent(o, t, ans) ==
    IF t.st = "raise" THEN NotSent(o, t)
    ELSE IF ~Serializable(o.f.elements) THEN NotSent(o, Raise("TypeError"))
    ELSE Result(IF ans.status_code = 201
                THEN [o EXCEPT !.f.entry_id = ans.body.id] ELSE o,
                ReturnNone, 1,
                [method |-> "POST", resource |-> "entries",
                 content |-> [title |-> o.f.title, author_id |-> UserId,
                              project_id |-> o.f.project_id]],
                ans)

MakeEntry(o, s, ans) == MakeEntrySent(o, MakeEntryBuilt(o, s), ans)

\* Entry.update_entry, entries.py lines 196-215.
UpdateEntry(o, s, ans) ==
    IF o.f.entry_id = "" THEN Quiet(o)
    ELSE IF Transport(s).st # "raise" /\ ~Serializable(o.f.elements)
    THEN NotSent(o, Raise("TypeError"))
    ELSE UpdateSent(o, [method |-> "PUT", resource |-> "entries",
                        id |-> o.f.entry_id,
                        content |-> [title |-> o.f.title,
                                     author_id |-> o.f.author_id,
                                     project_id |-> o.f.project_id,
                                     locked |-> FALSE]],
                    Transport(s), ans)

\* ------------------------------------------------- calls on any object

\* The call ends as r says; the table side of the state is left alone.
Apply(r, op, arg, expects) ==
    /\ obj' = r.obj
    /\ outcome' = r.outcome
    /\ sent' = r.sent
    /\ request' = IF r.sent > 0 THEN WithHeaders(r.request, session)
                  ELSE r.request
    /\ response' = r.response
    /\ before' = Snapshot(op, arg, expects)
    /\ pc' = op
    /\ UNCHANGED <<table, header, converted, exported, reimported,
                   element_id, entry_id, session,
                   default_table, shares_default>>

LoginStatuses == {200, 400, 401, 403, 500}

\* The session labfolder_login returns, labfolder_access.py lines 109-130:
\* every branch builds a LabFolderUserInfo and the function returns it.
LoginSession(status) ==
    IF status = 401 THEN FailedUser
    ELSE IF status = 400 THEN FailedUser
    ELSE IF status = 403 THEN FailedUser
    ELSE IF status = 200 THEN LoggedIn
    ELSE FailedUser

\* labfolder_login(url, user, password); with status 200 the constructor
\* of the session sends the GET of "me" as well.
Login ==
    \E status \in LoginStatuses :
        /\ session' = LoginSession(status)
        /\ outcome' = Ok(session')
        /\ sent' = IF status = 200 THEN 2 ELSE 1
        /\ request' = IF status = 200
                      THEN [method |-> "GET", resource |-> "me",
                            headers |-> session'.auth_token]
                      ELSE [method |-> "POST", resource |-> "auth/login",
                            headers |-> "Content-Type: application/json"]
        /\ response' = [status_code |-> status,
                        body |-> IF status = 200 THEN [token |-> "token"]
                                 ELSE [message |-> "error"]]
        /\ before' = Snapshot("labfolder_login", "", {"token"})
        /\ UNCHANGED <<table, header, pc, converted, exported, reimported,
                       element_id, entry_id, obj, default_table,
                       shares_default>>

\* labfolder_logout(user), labfolder_access.py lines 144-153: the POST
\* carries the session's token; the session object is left as it is.
LogoutSent(t, status) ==
    /\ outcome' = IF t.st = "raise" THEN t ELSE ReturnNone
    /\ sent' = IF t.st = "raise" THEN 0 ELSE 1
    /\ request' = IF t.st = "raise" THEN request
                  ELSE WithHeaders([method |-> "POST",
                                    resource |-> "auth/logout"], session)
    /\ response' = IF t.st = "raise" THEN NoResponse
                   ELSE [status_code |-> status, body |-> [none |-> "none"]]

Logout ==
    /\ \E status \in {204, 401} : LogoutSent(Transport(session), status)
    /\ before' = Snapshot("labfolder_logout", "", {})
    /\ UNCHANGED <<table, header, pc, converted, exported, reimported,
                   element_id, entry_id, obj, session,
                   default_table, shares_default>>

LoadData ==
    /\ obj.cls = "DataElement"
    /\ \E arg \in ElementIds :
          LET id == IF arg = "" THEN obj.f.element_id ELSE arg IN
          \E ans \in GetAnswers(DataPairs, id) :
             Apply(LoadRecord(obj, id, "elements/data", DataPairs, session, ans),
                   "load_data", id, KeysOf(DataPairs))

LoadText ==
    /\ obj.cls = "TextElement"
    /\ \E arg \in ElementIds :
          LET id == IF arg = "" THEN obj.f.element_id ELSE arg IN
          \E ans \in GetAnswers(TextPairs, id) :
             Apply(LoadRecord(obj, id, "elements/text", TextPairs, session, ans),
                   "load_text", id, KeysOf(TextPairs))

LoadImage ==
    /\ obj.cls = "ImageElement"
    /\ \E arg \in ElementIds :
          LET id == IF arg = "" THEN obj.f.element_id ELSE arg IN
          \E ans \in GetAnswers(ImagePairs, id) :
             Apply(LoadImageRecord(obj, id, session, ans),
                   "load_image", id, KeysOf(ImagePairs))

WriteElement ==
    \E entry \in EntryIds, status \in StatusCodes :
        \/ /\ obj.cls = "DataElement"
           /\ Apply(WriteData(obj, entry, session, PostAnswer(status)),
                    "write_to_labfolder", entry, {"id"})
        \/ /\ obj.cls = "TextElement"
           /\ Apply(WriteText(obj, entry, session, PostAnswer(status)),
                    "write_to_labfolder", entry, {"id"})
        \/ /\ obj.cls = "DataElementGroup"
           /\ Apply(WriteGroup(obj, entry, session, PostAnswer(status)),
                    "write_to_labfolder", entry, {"id"})

UpdateElement ==
    \E status \in StatusCodes :
        \/ /\ obj.cls = "DataElement"
           /\ Apply(UpdateData(obj, session, PutAnswer(status)),
                    "update_on_labfolder", obj.f.element_id, {})
        \/ /\ obj.cls = "TextElement"
           /\ Apply(UpdateText(obj, session, PutAnswer(status)),
                    "update_on_labfolder", obj.f.element_id, {})
        \/ /\ obj.cls = "DataElementGroup"
           /\ Apply(UpdateGroup(obj, session, PutAnswer(status)),
                    "update_on_labfolder", obj.f.element_id, {})

MakeEntryCall ==
    /\ obj.cls = "Entry"
    /\ \E status \in StatusCodes :
          Apply(MakeEntry(obj, session, PostAnswer(status)),
                "make_entry", "", {"id"})

UpdateEntryCall ==
    /\ obj.cls = "Entry"
    /\ \E status \in StatusCodes :
          Apply(UpdateEntry(obj, session, PutAnswer(status)),
                "update_entry", obj.f.entry_id, {})

\* load_table with an element id and a session that is not logged in,
\* lines 702-713: None is reported; the session of a failed login passes
\* the isinstance check and the GET is built.
LoadTableUnauth ==
    /\ obj.cls = "TableElement"
    /\ element_id # ""
    /\ session # LoggedIn
    /\ outcome' = IF session.kind = "None" THEN ReturnNone
                  ELSE Transport(session)
    /\ pc' = "load_table"
    /\ sent' = 0
    /\ response' = NoResponse
    /\ before' = Snapshot("load_table", element_id, TableKeys)
    /\ converted' = NotRun
    /\ exported' = NotRun
    /\ UNCHANGED <<table, header, reimported, element_id, entry_id, request,
                   obj, session,
                   default_table, shares_default>>

\* load_table answered with a body that lacks fields, lines 709-718:
\* either the first field only (entry_id is assigned, then KeyError) or an
\* error body (KeyError at once).
LoadTableAborted ==
    /\ obj.cls = "TableElement"
    /\ element_id # ""
    /\ session = LoggedIn
    /\ \E partial \in BOOLEAN :
          /\ response' = IF partial
                         THEN [status_code |-> 200,
                               body |-> [entry_id |-> <<"srv", "entry_id">>]]
                         ELSE [status_code |-> 404,
                               body |-> [message |-> "Not found"]]
          /\ entry_id' = IF partial THEN "e1" ELSE entry_id
    /\ outcome' = Raise("KeyError")
    /\ request' = WithHeaders([method |-> "GET",
                                resource |-> "elements/table",
                                id |-> element_id], session)
    /\ sent' = 1
    /\ pc' = "load_table"
    /\ before' = Snapshot("load_table", element_id, TableKeys)
    /\ converted' = NotRun
    /\ exported' = NotRun
    /\ UNCHANGED <<table, header, reimported, element_id, obj, session,
                   default_table, shares_default>>

\* ------------------------------------------- parse_data_element, entries

\* element.get(key, default).
Get(rec, key, default) == IF key \in DOMAIN rec THEN rec[key] ELSE default

\* What parse_data_element returns for a record it does not know.
NoneObject == [cls |-> "NoneType"]

\* The answer to the GET the constructor of a parsed table sends: the
\* record the server holds, which _get_entry fetched before.
RecordLoad(rec) ==
    [kind |-> "record", sheets |-> Get(rec, "content", <<>>),
     entry_id |-> Get(rec, "entry_id", "")]

\* TableElement(user_info, element_id, entry_id) as parse_data_element
\* calls it (lines 1204-1208): import_as_pd and header are the defaults
\* True; what the constructor raises leaves parse_data_element.
BuiltTable(rec, s) ==
    Constructed(s, Get(rec, "id", ""), Get(rec, "entry_id", ""), TRUE, TRUE,
                RecordLoad(rec))

ParsedTable(c) ==
    IF c.st # ReturnNone THEN c.st
    ELSE Ok([cls |-> "TableElement",
             f |-> [type |-> "TABLE", element_id |-> c.elem.element_id,
                    table |-> c.elem.table]])

ParseTable(rec, s) == ParsedTable(BuiltTable(rec, s))

RECURSIVE ParseDataElement(_, _)
RECURSIVE ParseChildren(_, _, _)

\* Lines 1174-1177: a child that parses to None is not added.
ChildParsed(children, s, done, c) ==
    IF c.st = "raise" THEN c
    ELSE ParseChildren(Tail(children), s,
                       IF c.val = NoneObject THEN done ELSE Append(done, c.val))

ParseChildren(children, s, done) ==
    IF children = <<>> THEN Ok(done)
    ELSE ChildParsed(children, s, done, ParseDataElement(Head(children), s))

GroupParsed(rec, r) ==
    IF r.st = "raise" THEN r ELSE Ok(GroupObject(Get(rec, "title", ""), r.val))

\* parse_data_element(element, user_info), lines 1170-1211.
ParseDataElement(rec, s) ==
    CASE Get(rec, "element_type", "") = "DATA_ELEMENT_GROUP" ->
             GroupParsed(rec, ParseChildren(Get(rec, "children", <<>>), s, <<>>))
      [] Get(rec, "element_type", "") = "FILE" ->
             Ok(FileObject(Get(rec, "id", "")))
      [] Get(rec, "element_type", "") = "IMAGE" ->
             Ok([ImageObject(Get(rec, "id", ""))
                    EXCEPT !.f.title = Get(rec, "title", ""),
                           !.f.original_file_content_type =
                               Get(rec, "original_file_content_type",
                                   "image/png")])
      [] Get(rec, "element_type", "") = "TEXT" ->
             Ok(TextObject(Get(rec, "id", ""), Get(rec, "content", "")))
      [] Get(rec, "element_type", "") = "DESCRIPTIVE_DATA" ->
             Ok(DescriptiveObject(Get(rec, "id", ""), Get(rec, "title", ""),
                                  Get(rec, "description", "")))
      [] Get(rec, "element_type", "") = "DATA" ->
             Ok(DataObject(Get(rec, "id", ""), Get(rec, "description", "")))
      [] Get(rec, "element_type", "") = "TABLE" -> ParseTable(rec, s)
      [] OTHER -> Ok(NoneObject)

\* [parse_data_element(element, user_info) for element in self.elements],
\* entries.py lines 74-76: every result is kept, None included.
RECURSIVE ParseAll(_, _, _)
ElementParsed(records, s, done, c) ==
    IF c.st = "raise" THEN c
    ELSE ParseAll(Tail(records), s, Append(done, c.val))

ParseAll(records, s, done) ==
    IF records = <<>> THEN Ok(done)
    ELSE ElementParsed(records, s, done, ParseDataElement(Head(records), s))

\* The GETs the parse of a list of records sends: one for each TABLE
\* record whose constructor loads its table (lines 673-674), those of the
\* children of a group, up to and with the first record that raises.
RECURSIVE LoadsIn(_, _)
LoadsOf(rec, s) ==
    CASE Get(rec, "element_type", "") = "TABLE" -> BuiltTable(rec, s).sent
      [] Get(rec, "element_type", "") = "DATA_ELEMENT_GROUP" ->
             LoadsIn(Get(rec, "children", <<>>), s)
      [] OTHER -> 0

LoadsIn(records, s) ==
    IF records = <<>> THEN 0
    ELSE LoadsOf(Head(records), s)
         + (IF ParseDataElement(Head(records), s).st = "raise" THEN 0
            ELSE LoadsIn(Tail(records), s))

\* The types _get_entry fetches a record for, entries.py lines 247-302.
SupportedTypes ==
    {"FILE", "IMAGE", "TEXT", "TABLE", "DATA_ELEMENT_GROUP", "DATA",
     "WELL_PLATE"}

\* The loop of _get_entry, lines 245-305: the records of the listed
\* elements of a supported type, in order.
FetchElements(listed) ==
    LET kept == SelectSeq(listed, LAMBDA e : e.type \in SupportedTypes) IN
    [i \in DOMAIN kept |-> kept[i].record]

\* get_entry after the entry's fields are read: self.elements is the
\* fetched list (line 72), then the parsed list (lines 73-76).  One GET
\* was sent for the entry, one for each fetched record, and the parse
\* sends those of the tables it loads.
EntryParsed(o, fetched, raw, parsed, n, req, ans) ==
    IF raw THEN Result([o EXCEPT !.f.elements = fetched], ReturnNone,
                       1 + Len(fetched), req, ans)
    ELSE IF parsed.st = "raise"
         THEN Result([o EXCEPT !.f.elements = fetched], parsed,
                     1 + Len(fetched) + n, req, ans)
         ELSE Result([o EXCEPT !.f.elements = parsed.val], ReturnNone,
                     1 + Len(fetched) + n, req, ans)

EntryFetched(o, s, raw, fetched, req, ans) ==
    EntryParsed(o, fetched, raw,
                IF raw THEN Ok(<<>>) ELSE ParseAll(fetched, s, <<>>),
                IF raw THEN 0 ELSE LoadsIn(fetched, s), req, ans)

EntryAssigned(o, s, raw, a, req, ans) ==
    IF a.st # ReturnNone THEN Result([o EXCEPT !.f = a.f], a.st, 1, req, ans)
    ELSE IF "elements" \notin DOMAIN ans.body
         THEN Result([o EXCEPT !.f = a.f], Raise("KeyError"), 1, req, ans)
         ELSE EntryFetched([o EXCEPT !.f = a.f], s, raw,
                           FetchElements(ans.body.elements), req, ans)

EntrySent(o, s, raw, t, ans) ==
    IF t.st = "raise" THEN NotSent(o, t)
    ELSE EntryAssigned(o, s, raw, AssignFrom(o.f, EntryPairs, ans.body),
                       [method |-> "GET", resource |-> "entries",
                        id |-> o.f.entry_id],
                       ans)

\* Entry.get_entry(user_info, raw), entries.py lines 72-76 and 238-305.
GetEntry(o, s, raw, ans) == EntrySent(o, s, raw, Transport(s), ans)

\* The elements an entry lists, each with the record the server holds for
\* it: known to the parser, fetched but unknown to it (WELL_PLATE), not
\* fetched (COMMENT), a table whose sheet converts, a table whose sheet has
\* no row, a group with a known and an unknown child.
Listed(type, record) == [type |-> type, record |-> record]

ListedTable(g) ==
    Listed("TABLE", [element_type |-> "TABLE", id |-> "t1", entry_id |-> "e1",
                     content |-> <<[name |-> SheetNames[1],
                                    sheet |-> Fetched(SheetNames[1], g)]>>])

\* The elements in the order the entries of the runs list them.
ListedOrder ==
    <<ListedTable(ElemGridSeq[1]),
      Listed("TEXT", [element_type |-> "TEXT", id |-> "x1", content |-> "txt"]),
      Listed("DATA", [element_type |-> "DATA", id |-> "x2",
                      description |-> "d"]),
      Listed("FILE", [element_type |-> "FILE", id |-> "x3"]),
      ListedTable(ElemGridSeq[2]),
      Listed("IMAGE", [element_type |-> "IMAGE", id |-> "x7", title |-> "pic",
                       original_file_content_type |-> "image/jpeg"]),
      Listed("WELL_PLATE", [element_type |-> "WELL_PLATE", id |-> "x4"]),
      Listed("COMMENT", [element_type |-> "COMMENT", id |-> "x5"]),
      Listed("DATA_ELEMENT_GROUP",
             [element_type |-> "DATA_ELEMENT_GROUP", id |-> "x6",
              title |-> "g",
              children |-> <<[element_type |-> "DESCRIPTIVE_DATA",
                              title |-> "t", description |-> "d"],
                             [element_type |-> "MATERIAL_DATA",
                              title |-> "m"]>>]),
      ListedTable(ElemGridSeq[3])>>

ListedElements == Range(ListedOrder)

\* The most elements an entry lists.
MaxBatch == 2

\* An entry lists up to MaxBatch of the elements, each once.
Batches ==
    {Pick(ListedOrder, chosen) :
        chosen \in {c \in SUBSET DOMAIN ListedOrder :
                       Cardinality(c) <= MaxBatch}}

\* The answers to the GET of an entry: the record with its element list,
\* a record with the first field only, an error body.
EntryAnswers ==
    {[status_code |-> 200,
      body |-> [author_id |-> "srv", creation_date |-> "srv",
                tags |-> <<>>, project_id |-> "srv", title |-> "srv",
                elements |-> b]] : b \in Batches}
    \cup
    {[status_code |-> 200, body |-> [author_id |-> "srv"]],
     [status_code |-> 404, body |-> [message |-> "Not found"]]}

\* get_entry called on an entry that holds no elements yet.
GetEntryCall ==
    /\ obj.cls = "Entry"
    /\ obj.f.elements = <<>>
    /\ \E raw \in BOOLEAN, ans \in EntryAnswers :
          Apply(GetEntry(obj, session, raw, ans), "get_entry",
                [entry_id |-> obj.f.entry_id, raw |-> raw],
                KeysOf(EntryPairs) \cup {"elements"})

\* Entry(user_info, entry_id, raw), entries.py lines 52-60: with an entry
\* id the constructor calls get_entry.  The runs construct another entry
\* while the one they hold has no elements yet.
NewEntry(id, s, raw, ans) ==
    IF id = "" THEN Quiet(EntryObject(id))
    ELSE GetEntry(EntryObject(id), s, raw, ans)

\* The constructor returned: its entry replaces the one of the state.  It
\* raised: no entry was built, the one of the state is left.
EntryBuilt(r, id, raw) ==
    /\ obj' = (IF r.outcome = ReturnNone THEN r.obj ELSE obj)
    /\ outcome' = r.outcome
    /\ sent' = r.sent
    /\ request' = (IF r.sent > 0 THEN WithHeaders(r.request, session)
                   ELSE r.request)
    /\ response' = r.response
    /\ before' = BeganWith("Entry.__init__", [entry_id |-> id, raw |-> raw],
                           IF id = "" THEN {}
                           ELSE KeysOf(EntryPairs) \cup {"elements"},
                           [obj |-> EntryObject(id), element_id |-> "",
                            entry_id |-> "", table |-> <<>>])

ConstructEntry ==
    /\ obj.cls = "Entry"
    /\ obj.f.elements = <<>>
    /\ \E id \in EntryIds, raw \in BOOLEAN, ans \in EntryAnswers :
          EntryBuilt(NewEntry(id, session, raw, ans), id, raw)
    /\ pc' = "Entry.__init__"
    /\ UNCHANGED <<table, header, converted, exported, reimported,
                   element_id, entry_id, session, default_table,
                   shares_default>>

\* The children of the groups of the runs: none, a descriptive element, a
\* data element, a nested group.
GroupChildren ==
    {<<>>, <<DescriptiveObject("", "t", "d")>>, <<DataObject("x2", "d")>>,
     <<GroupObject("n", <<DescriptiveObject("", "t", "d")>>)>>}

\* The most children add_child gives a group of the runs.
MaxChildren == 2

\* DataElementGroup.add_child(child), line 493.
AddChild ==
    /\ obj.cls = "DataElementGroup"
    /\ Len(obj.f.children) < MaxChildren
    /\ \E ch \in GroupChildren \ {<<>>} :
          Apply(Quiet([obj EXCEPT !.f.children = Append(@, ch[1])]),
                "add_child", ch[1].cls, {})

\* The objects the calls are made on, as their constructors leave them
\* without a session; a group may have been given an element id by its
\* caller (the constructor takes none).
NewObjects ==
    {DataObject(i, d) : i \in ElementIds, d \in Texts}
    \cup {TextObject(i, c) : i \in ElementIds, c \in Texts}
    \cup {ImageObject(i) : i \in ElementIds}
    \cup {[GroupObject("g", ch) EXCEPT !.f.element_id = id] :
             ch \in GroupChildren, id \in ElementIds}
    \cup {EntryObject("")}
    \cup {TableObject("")}

\* No session yet (user_info is None); one object was constructed.  A
\* TableElement(None, element_id, entry_id) holds the default dict.
InitApi ==
    /\ obj \in NewObjects
    /\ session = NoUser
    /\ default_table = <<>>
    /\ shares_default = (obj.cls = "TableElement")
    /\ table = <<>>
    /\ header = TRUE
    /\ pc = "constructed"
    /\ converted = NotRun
    /\ exported = NotRun
    /\ reimported = NotRun
    /\ element_id \in IF obj.cls = "TableElement" THEN {"", "t1"} ELSE {""}
    /\ entry_id \in IF obj.cls = "TableElement" THEN EntryIds ELSE {""}
    /\ request = NoRequest
    /\ sent = 0
    /\ outcome = NotRun
    /\ before = NoSnapshot
    /\ response = NoResponse

\* add_sheet takes no session: it is called whatever user_info is.
AddSheetAny ==
    /\ obj.cls = "TableElement"
    /\ session # LoggedIn
    /\ AddSheet

\* The calls of a TableElement that take a session, made with a logged-in
\* one, and add_sheet; the conversions are explored under Spec and SpecConv.
TableCalls ==
    /\ obj.cls = "TableElement"
    /\ session = LoggedIn
    /\ \/ AddSheet
       \/ LoadTable
       \/ LoadTableNoId
       \/ WriteNoEntry
       \/ WriteToLabfolder
       \/ UpdateOnLabfolder

NextApi ==
    \/ Login
    \/ Logout
    \/ LoadData
    \/ LoadText
    \/ LoadImage
    \/ WriteElement
    \/ UpdateElement
    \/ MakeEntryCall
    \/ UpdateEntryCall
    \/ GetEntryCall
    \/ ConstructEntry
    \/ AddChild
    \/ ConstructTable
    \/ AddSheetAny
    \/ LoadTableUnauth
    \/ LoadTableAborted
    \/ TableCalls

SpecApi == InitApi /\ [][NextApi]_vars

\* ------------------------------------------ claims on identifiers, calls

\* The element id the object holds.
ObjectElementId ==
    IF obj.cls = "TableElement" THEN element_id ELSE obj.f.element_id

\* C13: a create that was given a non-empty entry id and was answered 201
\* with an id leaves the element's element_id equal to the returned id, for
\* DataElement, TextElement, TableElement and DataElementGroup.
C13_CreateCapturesId ==
    (/\ before.op = "write_to_labfolder"
     /\ before.arg # ""
     /\ sent = 1
     /\ response.status_code = 201
     /\ "id" \in DOMAIN response.body)
        => ObjectElementId = response.body.id

\* The create of an element that held no id was answered 201 with an id.
CreatedNow ==
    /\ obj.cls \in {"DataElement", "TextElement", "TableElement"}
    /\ before.op = "write_to_labfolder"
    /\ before.arg # ""
    /\ (IF obj.cls = "TableElement" THEN before.element_id
        ELSE before.obj.f.element_id) = ""
    /\ sent = 1
    /\ response.status_code = 201
    /\ "id" \in DOMAIN response.body

\* C14: when the create of a DataElement, TextElement or TableElement that
\* held no element id was answered 201 with id X, an update called next
\* that sends its PUT addresses the resource X.
C14_CreateThenUpdate ==
    [][(CreatedNow /\ before'.op = "update_on_labfolder" /\ sent' = 1)
          => (request'.method = "PUT" /\ request'.id = response.body.id)]_vars

\* The calls that load, create and update.
LoadOps == {"load_data", "load_text", "load_image", "load_table"}
ElementOps == LoadOps \cup {"write_to_labfolder", "update_on_labfolder"}
EntryOps == {"get_entry", "make_entry", "update_entry"}

\* The answer to the call is not a success, or lacks a field the call reads.
TransportFailed ==
    /\ sent >= 1
    /\ \/ response.status_code \notin 200..299
       \/ ~(before.expects \subseteq DOMAIN response.body)

\* Every field of the object is what it was when the call began.
FieldsUnchanged ==
    /\ obj = before.obj
    /\ element_id = before.element_id
    /\ entry_id = before.entry_id
    /\ table = before.table

\* C15: a load, create or update whose request is answered with a non-2xx
\* status, or with a body that lacks a field the call reads, reports the
\* failure, raises nothing and leaves every field of the object unchanged.
C15_TransportFailure ==
    (before.op \in ElementOps \cup EntryOps /\ TransportFailed)
        => (outcome = ReturnNone /\ FieldsUnchanged)

\* C16: with a logged-in session, a load or update of an element without
\* an element id, and a create or Entry.update_entry without an entry id,
\* sends no request, raises nothing and leaves the object unchanged.
C16_MissingIdentifier ==
    (/\ session = LoggedIn
     /\ before.op \in ElementOps \cup {"update_entry"}
     /\ before.arg = "")
        => (sent = 0 /\ outcome = ReturnNone /\ FieldsUnchanged)

\* C17: a call made with no session (None) or with the session of a failed
\* login sends no request, raises nothing and leaves the object unchanged;
\* constructing a TableElement with such a session raises nothing and
\* sends nothing.
C17_Unauthenticated ==
    (session # LoggedIn /\ before.op \in ElementOps \cup EntryOps \cup {"__init__"})
        => /\ sent = 0
           /\ outcome = ReturnNone
           /\ before.op # "__init__" => FieldsUnchanged

\* C18: labfolder_login returns a session only when the login is answered
\* 200; for 400, 401, 403 and every other status it returns None.
C18_LoginReturnsNoneOnFailure ==
    before.op = "labfolder_login" =>
        /\ response.status_code = 200 => outcome = Ok(LoggedIn)
        /\ response.status_code # 200 => outcome = ReturnNone

\* The type tags parse_data_element knows and the class it builds for each.
KnownTags ==
    {"DATA_ELEMENT_GROUP", "FILE", "IMAGE", "TEXT", "DESCRIPTIVE_DATA", "DATA",
     "TABLE"}

VariantOf(tag) ==
    CASE tag = "DATA_ELEMENT_GROUP" -> "DataElementGroup"
      [] tag = "FILE" -> "FileElement"
      [] tag = "IMAGE" -> "ImageElement"
      [] tag = "TEXT" -> "TextElement"
      [] tag = "DESCRIPTIVE_DATA" -> "DescriptiveDataElement"
      [] tag = "DATA" -> "DataElement"
      [] tag = "TABLE" -> "TableElement"

Variants == {VariantOf(tag) : tag \in KnownTags}

\* get_entry(raw=False) was answered with the record of the entry.
GotEntry ==
    /\ before.op = "get_entry"
    /\ ~before.arg.raw
    /\ sent >= 1
    /\ before.expects \subseteq DOMAIN response.body

\* The records get_entry fetched for the elements the entry lists.
FetchedNow == FetchElements(response.body.elements)

\* C19: in the batch of an entry that holds a record with an unknown type
\* tag, that record parses to None, nothing is raised, and every record of
\* the batch with a known tag is parsed to an object of its variant.
C19_UnknownTypeSkipped ==
    (/\ GotEntry
     /\ \E i \in DOMAIN FetchedNow : FetchedNow[i].element_type \notin KnownTags)
        => /\ outcome = ReturnNone
           /\ \A i \in DOMAIN FetchedNow :
                 IF FetchedNow[i].element_type \in KnownTags
                 THEN \E k \in DOMAIN obj.f.elements :
                         obj.f.elements[k].cls =
                             VariantOf(FetchedNow[i].element_type)
                 ELSE ParseDataElement(FetchedNow[i], session) = Ok(NoneObject)

\* C20: after get_entry(raw=False) every item of the entry's elements, and
\* every child of a parsed group, is an object of an element variant; a
\* record of unknown type leaves no None in the sequence.
C20_NoPlaceholder ==
    (GotEntry /\ outcome = ReturnNone)
        => \A k \in DOMAIN obj.f.elements :
              /\ obj.f.elements[k] # NoneObject
              /\ obj.f.elements[k].cls \in Variants
              /\ obj.f.elements[k].cls = "DataElementGroup" =>
                    \A c \in DOMAIN obj.f.elements[k].f.children :
                       obj.f.elements[k].f.children[c].cls \in Variants

\* ------------------------------------------------------ tags of an entry

\* The tag strings of the runs and the longest list passed to add_tags.
TagNames == {"a", "b", "c"}
MaxTagList == 2

SetOf(seq) == {seq[i] : i \in DOMAIN seq}

\* The arguments of add_tags: a string, a list of strings, something else.
TagArgs ==
    {[kind |-> "str", val |-> t] : t \in TagNames}
    \cup {[kind |-> "list", val |-> l] :
             l \in UNION {[1..n -> TagNames] : n \in 0..MaxTagList}}
    \cup {[kind |-> "other", val |-> "None"]}

\* A variant that appends whatever is not a list.
ExtendedAppendAny(tags, arg) ==
    IF arg.kind = "list" THEN tags \o arg.val ELSE Append(tags, arg.val)

\* entries.py lines 113-116: a list extends the tags, a string is
\* appended, anything else adds nothing.
Extended(tags, arg) ==
    IF arg.kind = "list" THEN tags \o arg.val
    ELSE IF arg.kind = "str" THEN Append(tags, arg.val)
    ELSE tags

\* list(set(tags)), line 117: every member once, in an order the set
\* decides.
ListsOfSet(S) == {q \in [1..Cardinality(S) -> S] : SetOf(q) = S}

\* Entry.add_tags(tags), lines 113-117.
AddTags ==
    /\ obj.cls = "Entry"
    /\ \E arg \in TagArgs :
          /\ \E order \in ListsOfSet(SetOf(Extended(obj.f.tags, arg))) :
                obj' = [obj EXCEPT !.f.tags = order]
          /\ before' = Snapshot("add_tags", arg, {})
    /\ pc' = "add_tags"
    /\ outcome' = ReturnNone
    /\ sent' = 0
    /\ response' = NoResponse
    /\ UNCHANGED <<table, header, converted, exported, reimported, element_id,
                   entry_id, request, session,
                   default_table, shares_default>>

\* Entry(None): a new entry without an id (lines 52-58); no request is
\* involved.
InitTags ==
    /\ obj = EntryObject("")
    /\ session = NoUser
    /\ default_table = <<>>
    /\ shares_default = FALSE
    /\ table = <<>>
    /\ header = TRUE
    /\ pc = "constructed"
    /\ converted = NotRun
    /\ exported = NotRun
    /\ reimported = NotRun
    /\ element_id = ""
    /\ entry_id = ""
    /\ request = NoRequest
    /\ sent = 0
    /\ outcome = NotRun
    /\ before = NoSnapshot
    /\ response = NoResponse

\* The values the setters of the runs are given.
Titles == {"T"}
AuthorIds == {"a1"}
ProjectIds == {"p1"}
CreationDates == {"2024-01-01"}

\* Entry.add_title(title), line 84.
AddTitle ==
    /\ obj.cls = "Entry"
    /\ \E title \in Titles :
          Apply(Quiet([obj EXCEPT !.f.title = title]), "add_title", title, {})

\* Entry.add_author_id(author_id), line 92.
AddAuthorId ==
    /\ obj.cls = "Entry"
    /\ \E author_id \in AuthorIds :
          Apply(Quiet([obj EXCEPT !.f.author_id = author_id]),
                "add_author_id", author_id, {})

\* Entry.add_project_id(project_id), line 100.
AddProjectId ==
    /\ obj.cls = "Entry"
    /\ \E project_id \in ProjectIds :
          Apply(Quiet([obj EXCEPT !.f.project_id = project_id]),
                "add_project_id", project_id, {})

\* Entry.add_creation_date(creation_date), line 125.
AddCreationDate ==
    /\ obj.cls = "Entry"
    /\ \E creation_date \in CreationDates :
          Apply(Quiet([obj EXCEPT !.f.creation_date = creation_date]),
                "add_creation_date", creation_date, {})

\* What add_elements is given: an element object, the dict of a fetched
\* record, a list of two objects.
AddedElements ==
    {TextObject("", "txt"),
     [element_type |-> "TEXT", id |-> "x1", content |-> "txt"],
     [cls |-> "list",
      items |-> <<TextObject("", "txt"), DataObject("", "")>>]}

\* The most items add_elements gives an entry of the runs.
MaxAdded == 2

\* Entry.add_elements(elements), line 139: the argument is appended as one
\* item, a list too.
AddElements ==
    /\ obj.cls = "Entry"
    /\ Len(obj.f.elements) < MaxAdded
    /\ \E elements \in AddedElements :
          Apply(Quiet([obj EXCEPT !.f.elements = Append(@, elements)]),
                "add_elements", elements, {})

NextTags == AddTags

SpecTags == InitTags /\ [][NextTags]_vars

\* An entry built without an id, filled by its setters, created and
\* updated on the server.
NextEntry ==
    \/ Login
    \/ AddTitle
    \/ AddAuthorId
    \/ AddProjectId
    \/ AddCreationDate
    \/ AddElements
    \/ MakeEntryCall
    \/ UpdateEntryCall

SpecEntry == InitTags /\ [][NextEntry]_vars

\* The tags an argument of add_tags passes in.
PassedTags(arg) ==
    IF arg.kind = "list" THEN SetOf(arg.val)
    ELSE IF arg.kind = "str" THEN {arg.val}
    ELSE {}

\* C21: after each add_tags call of a sequence the entry's tags hold no
\* duplicate and are, as a set, the tags held before the call together
\* with every tag passed in; an argument that is neither a string nor a
\* list adds nothing.
C21_TagsUnique ==
    before.op = "add_tags" =>
        /\ \A i, j \in DOMAIN obj.f.tags :
              obj.f.tags[i] = obj.f.tags[j] => i = j
        /\ SetOf(obj.f.tags) =
               SetOf(before.obj.f.tags) \cup PassedTags(before.arg)
        /\ before.arg.kind = "other" =>
               SetOf(obj.f.tags) = SetOf(before.obj.f.tags)

\* C21 witness: a list that repeats a tag the entry already holds and
\* brings a new one was added; the entry holds each once.
C21_Witness ==
    /\ before.op = "add_tags"
    /\ before.arg.kind = "list"
    /\ Len(before.arg.val) = 2
    /\ before.arg.val[1] \in SetOf(before.obj.f.tags)
    /\ before.arg.val[2] \notin SetOf(before.obj.f.tags)
    /\ Len(obj.f.tags) = Len(before.obj.f.tags) + 1

\* C22: make_entry sets entry_id to the id of the answer exactly when the
\* answer's status is 201; for any other status every field of the Entry
\* keeps its value; update_entry changes no field whatever the status.
C22_EntryCreationKeyedOnStatus ==
    /\ (before.op = "make_entry" /\ sent = 1) =>
          /\ response.status_code = 201 =>
                obj = [before.obj EXCEPT !.f.entry_id = response.body.id]
          /\ response.status_code # 201 => obj = before.obj
    /\ before.op = "update_entry" => obj = before.obj

\* C22 witness: make_entry answered 201 stored a new id in an entry that
\* had been given a title, which it keeps.
C22_Witness ==
    /\ before.op = "make_entry"
    /\ sent = 1
    /\ obj.f.title \in Titles
    /\ response.status_code = 201
    /\ before.obj.f.entry_id # response.body.id
    /\ obj.f.entry_id = response.body.id

\* The calls that are not the login itself.
AfterLogin == before.op \notin {"none", "labfolder_login"}

\* C23: the last request of every element, entry and logout call carries
\* exactly the auth_token of the session as its headers, that token is the
\* one the login built, and no step other than a login changes the session.
C23_BearerCredential ==
    /\ []((AfterLogin /\ sent >= 1) =>
             /\ request.headers = session.auth_token
             /\ session.auth_token = LoggedIn.auth_token)
    /\ [][session' # session => before'.op = "labfolder_login"]_vars

\* C23 witness: after a login a logout sent its POST with the token.
C23_Witness ==
    /\ before.op = "labfolder_logout"
    /\ sent = 1
    /\ request.resource = "auth/logout"
    /\ request.headers = "Bearer token"

\* C24: every record get_entry fetches for a listed element (FILE, IMAGE,
\* TEXT, TABLE, DATA_ELEMENT_GROUP, DATA, WELL_PLATE) is parsed by
\* parse_data_element to an object, not None, of the variant of its kind.
C24_DispatchComplete ==
    (before.op = "get_entry" /\ sent >= 1
        /\ before.expects \subseteq DOMAIN response.body)
        => \A i \in DOMAIN FetchedNow :
              /\ ParseDataElement(FetchedNow[i], session).st = "ok"
              /\ ParseDataElement(FetchedNow[i], session).val # NoneObject
              /\ FetchedNow[i].element_type \in KnownTags =>
                    ParseDataElement(FetchedNow[i], session).val.cls =
                        VariantOf(FetchedNow[i].element_type)

\* C25: _handle_response(return_status=True) returns True exactly when the
\* answer is status 200 to a PUT or status 201 to a POST.
C25_HandleResponseStatus ==
    (before.op \in {"write_to_labfolder", "update_on_labfolder"} /\ sent = 1)
        => (HandleResponse(response, request.method)
               <=> \/ response.status_code = 200 /\ request.method = "PUT"
                   \/ response.status_code = 201 /\ request.method = "POST")

\* ------------------------------------------------- malformed wire rows

\* The side of the grids whose cells may be malformed.
MalformedSide == 2

\* A fetched sheet of MalformedSide x MalformedSide column entries, each a
\* text cell, a null cell or a string in place of the cell record.
InitMalformed ==
    /\ \E f \in Fillings(MalformedSide, MalformedSide,
                         {"text", "null", "malformed"}) :
          table = OneSheet(Fetched(Sheet1,
                                   GridOf(MalformedSide, MalformedSide, f)))
    /\ header \in BOOLEAN
    /\ pc = "start"
    /\ converted = NotRun
    /\ exported = NotRun
    /\ reimported = NotRun
    /\ ElemIdle

NextMalformed == CallTableToPd

SpecMalformed == InitMalformed /\ [][NextMalformed]_vars

\* The grid in which every row that holds a malformed entry is null under
\* each of its own column keys.
NullRows(grid) ==
    [i \in DOMAIN grid |->
        IF RowRaises(grid[i])
        THEN [key |-> grid[i].key,
              cells |-> [p \in DOMAIN grid[i].cells |->
                            [key |-> grid[i].cells[p].key, cell |-> Cell(None)]]]
        ELSE grid[i]]

\* C26: a row one of whose column entries is no cell record does not abort
\* the conversion: the sheet converts as the sheet in which that row is
\* null under each of its own column keys, the other rows as they are.
C26_MalformedRowFallback ==
    (pc = "converted" /\ \E i \in DOMAIN TheGrid : RowRaises(TheGrid[i]))
        => converted = TableToPd(OneSheet(Fetched(Sheet1, NullRows(TheGrid))),
                                 header, FALSE)

\* C27: write_to_labfolder (with an entry id) and update_on_labfolder (with
\* an element id) on a group whose children are element variants of any
\* kind reach the request, whose content holds the group's type and title
\* and one dictionary per child, in child order.
C27_GroupSerialization ==
    (/\ obj.cls = "DataElementGroup"
     /\ session = LoggedIn
     /\ \/ before.op = "write_to_labfolder" /\ before.arg # ""
        \/ before.op = "update_on_labfolder" /\ before.arg # "")
        => /\ sent = 1
           /\ request.content.data_elements[1].type = obj.f.type
           /\ request.content.data_elements[1].title = obj.f.title
           /\ Len(request.content.data_elements[1].children) =
                  Len(obj.f.children)

\* C28: for every fetched record with a known type tag and an id, the
\* object parse_data_element returns holds the record's id as element_id,
\* groups included.
C28_IdentifierPreserved ==
    (before.op = "get_entry" /\ sent >= 1
        /\ before.expects \subseteq DOMAIN response.body)
        => \A i \in DOMAIN FetchedNow :
              (/\ FetchedNow[i].element_type \in KnownTags
               /\ "id" \in DOMAIN FetchedNow[i]
               /\ ParseDataElement(FetchedNow[i], session).st = "ok")
                  => ParseDataElement(FetchedNow[i], session).val.f.element_id
                         = FetchedNow[i].id

\* C29: convert_pd_to_export on a table whose sheets are all tabular, and
\* table_to_pd, dict_to_table and to_dict called with in_place=False, leave
\* self.table (names, columns, index and cells of every sheet) as it was
\* before the call, for either header setting.
C29_CopyModeLeavesTable ==
    (\/ before.op = "convert_pd_to_export" /\ AllTabular(before.table)
     \/ before.op \in {"table_to_pd", "dict_to_table", "to_dict"}
           /\ ~before.arg.in_place)
        => table = before.table

\* C29 witness: to_dict(in_place=False) on a table of DataFrames returned
\* the dictionaries while the element still holds the DataFrames.
C29_Witness ==
    /\ before.op = "to_dict"
    /\ table # <<>>
    /\ AllTabular(table)
    /\ outcome.st = "ok"
    /\ \A i \in DOMAIN outcome.val : outcome.val[i].sheet.kind = "dict"
    /\ table = before.table

\* ------------------------------------------- several table elements

\* The most TableElements constructed in a run.
MaxElements == 2

\* The dict objects a table attribute can refer to: the one default value
\* of the parameter `table={}` (line 636), built once when the function is
\* defined, and one dict per element for a caller's own argument or for
\* the {} add_sheet builds when self.table is None (line 926-927).
DefaultDict == <<"default", 0>>
OwnDicts == [k \in 1..MaxElements |-> <<"own", k>>]
AllDicts == {DefaultDict} \cup {OwnDicts[k] : k \in DOMAIN OwnDicts}

\* The table argument of the constructor: left out, a new empty dict, None.
TableArgs == {"absent", "dict", "None"}

\* self.table = table, line 669: the attribute refers to the argument.
TableRef(arg, k) ==
    IF arg = "absent" THEN DefaultDict
    ELSE IF arg = "dict" THEN OwnDicts[k]
    ELSE <<"None", 0>>

\* What add_sheet may be given in place of a DataFrame.
NotAFrame == [kind |-> "dict"]

\* No element yet; every dict is empty.  default_table is the content of
\* the default dict, heap[DefaultDict].
InitSheets ==
    /\ obj = [cls |-> "TableElements", refs |-> <<>>,
              heap |-> [d \in AllDicts |-> <<>>]]
    /\ session = NoUser
    /\ default_table = <<>>
    /\ shares_default = FALSE
    /\ table = <<>>
    /\ header = TRUE
    /\ pc = "start"
    /\ converted = NotRun
    /\ exported = NotRun
    /\ reimported = NotRun
    /\ element_id = ""
    /\ entry_id = ""
    /\ request = NoRequest
    /\ sent = 0
    /\ outcome = NotRun
    /\ before = NoSnapshot
    /\ response = NoResponse

\* TableElement(None, table=arg) or TableElement(None): lines 666-672;
\* without an element id nothing is loaded.
ConstructElement ==
    /\ Len(obj.refs) < MaxElements
    /\ \E arg \in TableArgs :
          /\ obj' = [obj EXCEPT
                        !.refs = Append(@, TableRef(arg, Len(obj.refs) + 1))]
          /\ before' = Snapshot("__init__", arg, {})
    /\ pc' = "__init__"
    /\ outcome' = ReturnNone
    /\ UNCHANGED <<table, header, converted, exported, reimported, element_id,
                   entry_id, request, sent, response, session,
                   default_table, shares_default>>

\* add_sheet(sheet_name, table) on element k, lines 923-929: the dict the
\* attribute refers to is updated in place.
SheetAdded(o, k, ref, nm, t) ==
    [o EXCEPT !.refs[k] = ref, !.heap[ref] = DictUpdate(@, nm, t)]

AddSheetTo ==
    /\ \E k \in DOMAIN obj.refs, n \in DOMAIN SheetNames,
          t \in ElemFrames \cup {NotAFrame} :
          /\ obj' = IF ~IsDataFrame(t) THEN obj
                    ELSE SheetAdded(obj, k,
                                    IF obj.refs[k] = <<"None", 0>> THEN OwnDicts[k]
                                    ELSE obj.refs[k],
                                    SheetNames[n], t)
          /\ before' = Snapshot("add_sheet",
                                [element |-> k, name |-> SheetNames[n],
                                 table |-> t], {})
    /\ pc' = "add_sheet"
    /\ outcome' = ReturnNone
    /\ default_table' = obj'.heap[DefaultDict]
    /\ UNCHANGED <<table, header, converted, exported, reimported, element_id,
                   entry_id, request, sent, response, session,
                   shares_default>>

NextSheets == ConstructElement \/ AddSheetTo

SpecSheets == InitSheets /\ [][NextSheets]_vars

\* The table of element k as a reader of its attribute sees it.
TableOf(o, k) ==
    [is_none |-> o.refs[k] = <<"None", 0>>,
     sheets |-> IF o.refs[k] = <<"None", 0>> THEN <<>> ELSE o.heap[o.refs[k]]]

\* C30: add_sheet(name, t) on one TableElement adds or replaces only that
\* element's sheet `name` and leaves the table of every other TableElement
\* as it was, elements constructed without a table argument included;
\* add_sheet with a non-tabular argument changes nothing.
C30_SheetsPerElement ==
    before.op = "add_sheet" =>
        /\ \A j \in DOMAIN obj.refs \ {before.arg.element} :
              TableOf(obj, j) = TableOf(before.obj, j)
        /\ IF IsDataFrame(before.arg.table)
           THEN TableOf(obj, before.arg.element).sheets =
                    DictUpdate(TableOf(before.obj, before.arg.element).sheets,
                               before.arg.name, before.arg.table)
           ELSE TableOf(obj, before.arg.element) =
                    TableOf(before.obj, before.arg.element)

====
